---- MODULE Spec2Model ----
(***************************************************************************)
(* Model of the Chunwan_CI screener: indicator builder (src/scoring.py),   *)
(* scorer (src/scoring.py), report builder (src/report.py), the cache      *)
(* (src/cache.py) and the run pipeline (src/run.py).                       *)
(*                                                                         *)
(* Numbers.  Dates are day numbers.  Tickers are the numeric codes of the  *)
(* snapshot files (normalize_ticker pads them to six digits, which keeps   *)
(* their order).  A float is kept as an exact fraction                     *)
(* [nan, num, den] with den > 0; NaN is the record with nan = TRUE.        *)
(* A rolling standard deviation is kept as the window of closes it is the  *)
(* standard deviation of ([nan, of]).                                      *)
(***************************************************************************)
EXTENDS Integers, Sequences, FiniteSets, TLC

VARIABLES
    \* ---- indicator builder harness (SpecInd)
    ind_pc,        \* "input" | "computed"
    as_of,         \* the cutoff date of the computation
    price_df,      \* the price history handed to compute_indicators
    alt_df,        \* a second history with the same bars dated <= as_of
    indicator_df,  \* compute_indicators(price_df, as_of); the scorer's input
    alt_indicator_df,  \* compute_indicators(alt_df, as_of)
    \* ---- scorer and report builder harness (SpecScore)
    sc_pc,         \* "input" | "scored" | "reported" | "rescored" | "rereported"
    signals,       \* the signal catalog, a sequence of Signal records
    theme_map,     \* signal id -> sequence of [type, values]
    top_n,         \* the top_n handed to build_report
    scored_df,     \* score_stocks(...)[0]
    hit_map,       \* score_stocks(...)[1]
    report,        \* what build_report returned or raised
    alt_scored_df, \* the second execution's scored frame
    alt_hit_map,   \* the second execution's hit map
    alt_report,    \* the second execution's build_report outcome
    \* ---- the run pipeline (Spec)
    run_pc,        \* position of the current run of main()
    args,          \* the command line of the current run
    snapshots,     \* data/snapshots: snapshot date -> [prices, membership]
    theme_map_file,\* the theme-map CSV: [has_name, has_new_format, rows]
    cache,         \* .cache: cache key -> [data, report, meta]
    run,           \* the locals of main() other than the frames above
    emitted,       \* cache key -> the results emitted by the run that stored it
    \* ---- read by the report builder in all three
    theme_to_industry_csv, \* the file theme_to_industry.csv of the working
                           \* directory: its core-theme column, if it has one
    \* ---- the candidates file and the single-function harness (SpecFn)
    candidates_file,  \* artifacts_metrics/screener_candidates_latest.jsonl:
                      \* absent, or its text
    call           \* the function call being made: its inputs and results

ind_vars == <<ind_pc, price_df, alt_df, alt_indicator_df>>

sc_vars == <<sc_pc, signals, theme_map, top_n, scored_df, hit_map, report,
             alt_scored_df, alt_hit_map, alt_report>>

run_vars == <<run_pc, args, snapshots, theme_map_file, cache, run, emitted,
              theme_to_industry_csv, candidates_file, call>>

vars == <<ind_pc, as_of, price_df, alt_df, indicator_df, alt_indicator_df,
          sc_pc, signals, theme_map, top_n, scored_df, hit_map, report,
          alt_scored_df, alt_hit_map, alt_report,
          run_pc, args, snapshots, theme_map_file, cache, run, emitted,
          theme_to_industry_csv, candidates_file, call>>

----------------------------------------------------------------------------
(* Generic helpers *)

Range(s) == {s[i] : i \in DOMAIN s}

Reverse(s) == [i \in DOMAIN s |-> s[Len(s) + 1 - i]]

RECURSIVE SeqSum(_, _, _)
\* sum of f[i] for i in lo..hi
SeqSum(f, lo, hi) == IF lo > hi THEN 0 ELSE f[hi] + SeqSum(f, lo, hi - 1)

RECURSIVE Flatten(_)
\* concatenation of a sequence of sequences
Flatten(ss) ==
    IF ss = <<>> THEN <<>>
    ELSE IF Len(ss) = 1 THEN ss[1]
    ELSE LET half == Len(ss) \div 2
         IN  Flatten(SubSeq(ss, 1, half)) \o Flatten(SubSeq(ss, half + 1, Len(ss)))

RECURSIVE SetToSortedSeq(_)
\* the elements of a finite set of integers in ascending order
SetToSortedSeq(S) ==
    IF S = {} THEN <<>>
    ELSE LET m == CHOOSE x \in S : \A y \in S : x <= y
         IN  <<m>> \o SetToSortedSeq(S \ {m})

----------------------------------------------------------------------------
(* Floats *)

NaN == [nan |-> TRUE, num |-> 0, den |-> 1]
Num(n, d) == [nan |-> FALSE, num |-> n, den |-> d]
Zero == Num(0, 1)

\* x < y for two non-NaN fractions
FracLess(x, y) == x.num * y.den < y.num * x.den
FracEq(x, y) == x.num * y.den = y.num * x.den

\* Series.fillna(0)
fillna(x) == IF x.nan THEN Zero ELSE x

NaNStd == [nan |-> TRUE, of |-> <<>>]
ZeroStd == [nan |-> FALSE, of |-> <<>>]
fillna_std(x) == IF x.nan THEN ZeroStd ELSE x

----------------------------------------------------------------------------
(* Indicator builder: src/scoring.py compute_indicators *)

\* Window lengths of compute_indicators
Momentum20Periods == 20
Momentum60Periods == 59
RollingWindow == 20

\* df.sort_values(["ticker", "date"]): a multi-column sort is a lexsort, which
\* is stable; rows with the same (ticker, date) keep their order.  (SortSeq is
\* an insertion sort: under a strict order equal rows keep their order.)
sort_values_ticker_date(df) ==
    SortSeq(df, LAMBDA a, b : \/ a.ticker < b.ticker
                              \/ a.ticker = b.ticker /\ a.date < b.date)

\* groupby("ticker")["close"].pct_change(periods) at position i of a group g
pct_change(g, i, periods) ==
    IF i - periods < 1 THEN NaN
    ELSE Num(g[i].close - g[i - periods].close, g[i - periods].close)

\* groupby("ticker")["return"].rolling(20).std() at position i: twenty
\* returns are needed, and the first return of a group is NaN
rolling_std_return(g, i) ==
    IF i - RollingWindow < 1 THEN NaNStd
    ELSE [nan |-> FALSE,
          of |-> [k \in 1..(RollingWindow + 1) |-> g[i - RollingWindow - 1 + k].close]]

\* groupby("ticker")["volume"].rolling(20).mean() at position i
rolling_mean_volume(g, i) ==
    IF i - RollingWindow < 0 THEN NaN
    ELSE Num(SeqSum([k \in DOMAIN g |-> g[k].volume], i - RollingWindow + 1, i),
             RollingWindow)

\* the indicator columns of row i of group g, before the NaN handling
indicator_cols(g, i) ==
    [momentum_20 |-> pct_change(g, i, Momentum20Periods),
     momentum_60 |-> pct_change(g, i, Momentum60Periods),
     volatility_20 |-> rolling_std_return(g, i),
     avg_volume_20 |-> rolling_mean_volume(g, i)]

\* one row of `latest`: isna().any(axis=1), then fillna(0)
latest_row(g, i) ==
    LET c == indicator_cols(g, i)
    IN  [date |-> g[i].date, ticker |-> g[i].ticker, name |-> g[i].name,
         industry |-> g[i].industry, concept |-> g[i].concept,
         description |-> g[i].description,
         close |-> g[i].close, volume |-> g[i].volume,
         momentum_20 |-> fillna(c.momentum_20),
         momentum_60 |-> fillna(c.momentum_60),
         volatility_20 |-> fillna_std(c.volatility_20),
         avg_volume_20 |-> fillna(c.avg_volume_20),
         indicator_missing |-> c.momentum_20.nan \/ c.momentum_60.nan
                               \/ c.volatility_20.nan \/ c.avg_volume_20.nan]

\* the rows of the sorted, computed frame that are kept, group by group: the
\* rows dated asof, or (last_row) the last row of each group
indicator_rows(df, asof, last_row) ==
    LET tickers == SetToSortedSeq({df[i].ticker : i \in DOMAIN df})
        group(t) == SelectSeq(df, LAMBDA r : r.ticker = t)
        rows_of(g) ==
            LET idx == SetToSortedSeq({i \in DOMAIN g :
                          IF last_row THEN i = Len(g) ELSE g[i].date = asof})
            IN  [k \in DOMAIN idx |-> latest_row(g, idx[k])]
    IN  Flatten([k \in DOMAIN tickers |-> rows_of(group(tickers[k]))])

\* a version that keeps every bar and reports each ticker's last row
compute_indicators_last_row(df_in, asof) ==
    indicator_rows(sort_values_ticker_date(df_in), asof, TRUE)

\* compute_indicators(price_df, as_of)
compute_indicators(df_in, asof) ==
    LET df == sort_values_ticker_date(SelectSeq(df_in, LAMBDA r : r.date <= asof))
    IN  indicator_rows(df, asof, FALSE)

----------------------------------------------------------------------------
(* Price histories of the indicator-builder harness *)

\* Tickers of the harness and the histories each may have: the number of
\* dated bars at or before the last past date, the distance of that date
\* from as_of (0: the ticker has a bar at as_of), and the number of rows per
\* bar (a snapshot price row is repeated once per membership row).
IndTickers == {1, 2}
MaxFuture == 1
PastBars(t) == IF t = 1 THEN {0, 1, 20, 21, 59, 60, 61} ELSE {0, 61}
Gaps(t) == IF t = 1 THEN {0, 1} ELSE {0}
RowsPerBar(t) == IF t = 1 THEN {1, 2} ELSE {1}
AsOfDates == {100}

CloseOf(t, d) == 10 + ((d * (t + 2)) % 7)
VolumeOf(t, d) == 100 + ((d * (t + 2)) % 5)

\* labels are sequences of characters
LabelAI == <<"A", "i">>
LabelChip == <<"c", "h", "i", "p">>
ConceptOf(j) == IF j = 1 THEN LabelAI ELSE LabelChip

Bar(d, t, c, v, j) ==
    [date |-> d, ticker |-> t, name |-> "STOCK", close |-> c, volume |-> v,
     industry |-> ConceptOf(j), concept |-> ConceptOf(j), description |-> <<>>]

\* the bars of ticker t dated lo..hi, each repeated `dup` times, closes
\* shifted by `shift`
BarsOf(t, lo, hi, dup, shift) ==
    [n \in 1..((hi - lo + 1) * dup) |->
        LET d == lo + ((n - 1) \div dup)
        IN  Bar(d, t, CloseOf(t, d) + shift, VolumeOf(t, d) + shift,
                ((n - 1) % dup) + 1)]

\* a history: for every ticker its past bars followed by `fut` later bars
History(asof, h, fut, shift) ==
    LET ts == SetToSortedSeq(IndTickers)
    IN  Flatten([k \in DOMAIN ts |->
          LET t == ts[k]
              last == asof - h[t].gap
          IN  BarsOf(t, last - h[t].past + 1, last, h[t].dup, 0)
              \o BarsOf(t, asof + 1, asof + fut[t], h[t].dup, shift)])

\* the run pipeline is not part of the harness specifications
RunIdle ==
    /\ run_pc = "off" /\ args = [kind |-> "none"] /\ snapshots = <<>>
    /\ theme_map_file = [kind |-> "none"]
    /\ cache = <<>> /\ run = [kind |-> "none"] /\ emitted = <<>>
    /\ theme_to_industry_csv = [kind |-> "none"]
    /\ candidates_file = [kind |-> "absent"]
    /\ call = [fn |-> "none"]

\* the scorer harness is not part of this specification
ScIdle ==
    /\ sc_pc = "off" /\ signals = <<>> /\ theme_map = <<>> /\ top_n = 0
    /\ scored_df = <<>> /\ hit_map = <<>> /\ report = [kind |-> "none"]
    /\ alt_scored_df = <<>> /\ alt_hit_map = <<>> /\ alt_report = [kind |-> "none"]

ShapesOf(t) == [past : PastBars(t), gap : Gaps(t), dup : RowsPerBar(t)]

IndInit ==
    /\ ind_pc = "input"
    /\ as_of \in AsOfDates
    /\ \E h1 \in ShapesOf(1), h2 \in ShapesOf(2),
          n1 \in 0..MaxFuture, n2 \in 0..MaxFuture, rev \in BOOLEAN :
         LET h == (1 :> h1) @@ (2 :> h2)
             f1 == [t \in IndTickers |-> n1]
             f2 == [t \in IndTickers |-> n2]
         IN  /\ price_df = IF rev THEN Reverse(History(as_of, h, f1, 0))
                           ELSE History(as_of, h, f1, 0)
             /\ alt_df = IF rev THEN Reverse(History(as_of, h, f2, 3))
                         ELSE History(as_of, h, f2, 3)
    /\ indicator_df = <<>>
    /\ alt_indicator_df = <<>>
    /\ ScIdle
    /\ RunIdle

\* the harness applies compute_indicators to both histories
ComputeIndicators ==
    /\ ind_pc = "input"
    /\ ind_pc' = "computed"
    /\ indicator_df' = compute_indicators(price_df, as_of)
    /\ alt_indicator_df' = compute_indicators(alt_df, as_of)
    /\ UNCHANGED <<as_of, price_df, alt_df>>
    /\ UNCHANGED sc_vars
    /\ UNCHANGED run_vars

IndNext == ComputeIndicators

SpecInd == IndInit /\ [][IndNext]_vars

----------------------------------------------------------------------------
(* C1 *)

PastOf(df, asof) == SelectSeq(df, LAMBDA r : r.date <= asof)

\* C1: compute_indicators never uses a bar dated after as_of: every row it
\* emits is dated as_of, and two histories that agree on the bars dated
\* <= as_of give the same rows.
C1_NoLookahead ==
    ind_pc = "computed" =>
        /\ \A i \in DOMAIN indicator_df : indicator_df[i].date = as_of
        /\ \A i \in DOMAIN alt_indicator_df : alt_indicator_df[i].date = as_of
        /\ (PastOf(price_df, as_of) = PastOf(alt_df, as_of)
              => indicator_df = alt_indicator_df)

\* rows were emitted from two histories that differ after as_of only
C1_Witness ==
    /\ ind_pc = "computed"
    /\ indicator_df # <<>>
    /\ PastOf(price_df, as_of) = PastOf(alt_df, as_of)
    /\ price_df # alt_df
    /\ \E i \in DOMAIN indicator_df : ~indicator_df[i].indicator_missing

----------------------------------------------------------------------------
(* Strings: a string is a sequence of one-character strings *)

\* str.lower() on the alphabet of the model
LowerChar(c) ==
    CASE c = "A" -> "a" [] c = "I" -> "i" [] c = "C" -> "c" [] c = "N" -> "n"
      [] OTHER -> c
lower(str) == [i \in DOMAIN str |-> LowerChar(str[i])]

RECURSIVE lstrip(_)
lstrip(str) == IF str # <<>> /\ Head(str) = " " THEN lstrip(Tail(str)) ELSE str
\* str.strip()
strip(str) == Reverse(lstrip(Reverse(lstrip(str))))

\* `a in b` for two strings
contains(b, a) ==
    \E i \in 0..(Len(b) - Len(a)) : SubSeq(b, i + 1, i + Len(a)) = a

NanStr == <<"n", "a", "n">>

\* the ticker column holds the code as a string
DigitChar == [n \in 0..9 |-> <<"0", "1", "2", "3", "4", "5", "6", "7", "8", "9">>[n + 1]]
ticker_str(t) == <<"0", DigitChar[t]>>

----------------------------------------------------------------------------
(* Scorer: src/scoring.py score_stocks *)

\* label_map[ticker]: the (column, value) pairs of the non-empty labels of a
\* row, in the order industry, concept, description
labels_of(row) ==
    LET cols == <<"industry", "concept", "description">>
        value(col) == strip(row[col])
        kept == SelectSeq(cols, LAMBDA col :
                    value(col) # <<>> /\ lower(value(col)) # NanStr)
    IN  [k \in DOMAIN kept |-> [col |-> kept[k], label |-> value(kept[k])]]

\* label_map is a dict filled row by row: a ticker with several rows keeps
\* the labels of its last row
label_map(df) ==
    [t \in {df[i].ticker : i \in DOMAIN df} |->
        LET last == CHOOSE i \in DOMAIN df :
                        /\ df[i].ticker = t
                        /\ \A j \in DOMAIN df : df[j].ticker = t => j <= i
        IN  labels_of(df[last])]

\* theme_map.get(signal.id, [])
entries_of(tm, sid) == IF sid \in DOMAIN tm THEN tm[sid] ELSE <<>>

\* hit_mask of one entry on one row
map_hit(entry, row) ==
    CASE entry.type = "ticker" -> ticker_str(row.ticker) \in Range(entry.values)
      [] entry.type = "concept" -> row.concept \in Range(entry.values)
      [] OTHER -> row.industry \in Range(entry.values)

map_match_path(entry) == IF entry.type = "industry" THEN "concept" ELSE entry.type

map_matched_term(entry, row) ==
    CASE entry.type = "ticker" -> ticker_str(row.ticker)
      [] entry.type = "concept" -> row.concept
      [] OTHER -> row.industry

\* the (entry, row) pairs of signal `sig` that hit ticker t
map_hits(df, tm, sig, t) ==
    LET entries == entries_of(tm, sig.id)
    IN  {p \in (DOMAIN entries) \X (DOMAIN df) :
            df[p[2]].ticker = t /\ map_hit(entries[p[1]], df[p[2]])}

\* the keywords of `sig` found in a label of the list, with the first label
\* each is found in
keyword_hits(labels, sig) ==
    {k \in DOMAIN sig.keywords :
        \E j \in DOMAIN labels :
            contains(lower(labels[j].label), lower(sig.keywords[k]))}

keyword_path(labels, kw) ==
    LET j == CHOOSE j \in DOMAIN labels :
                /\ contains(lower(labels[j].label), lower(kw))
                /\ \A i \in DOMAIN labels :
                      contains(lower(labels[i].label), lower(kw)) => j <= i
    IN  IF labels[j].col = "description" THEN "concept" ELSE labels[j].col

\* hit_details[ticker][signal.id] once both passes are done; `hit` says
\* whether the entry exists
hit_detail(df, tm, sig, t) ==
    LET entries == entries_of(tm, sig.id)
        mh == map_hits(df, tm, sig, t)
        labels == label_map(df)[t]
        kh == keyword_hits(labels, sig)
        terms == {map_matched_term(entries[p[1]], df[p[2]]) : p \in mh}
    IN  [hit |-> mh # {} \/ kh # {},
         match_paths |-> {map_match_path(entries[p[1]]) : p \in mh}
                          \cup {keyword_path(labels, sig.keywords[k]) : k \in kh},
         matched_terms |-> {x \in terms : x # <<>>}
                            \cup {sig.keywords[k] : k \in kh},
         matched_source |-> (IF mh # {} THEN {"map"} ELSE {})
                             \cup (IF kh # {} THEN {"signals"} ELSE {})]

\* signal_hit_tickers[signal.id]
signal_hit_tickers(df, tm, sig) ==
    {t \in {df[i].ticker : i \in DOMAIN df} : hit_detail(df, tm, sig, t).hit}

\* the theme score of a ticker: weights in tenths
theme_score_of(df, sigs, tm, t) ==
    SeqSum([k \in DOMAIN sigs |->
              IF sigs[k].weight > 0 /\ t \in signal_hit_tickers(df, tm, sigs[k])
              THEN sigs[k].weight ELSE 0], 1, Len(sigs))

\* a version of _rank_series in which ties share the lowest rank
rank_series_min(vals, i) ==
    LET less == Cardinality({j \in DOMAIN vals : FracLess(vals[j], vals[i])})
    IN  Num(less + 1, Len(vals))

\* _rank_series: Series.rank(pct=True), ties share the average rank
rank_series(vals, i) ==
    LET less == Cardinality({j \in DOMAIN vals : FracLess(vals[j], vals[i])})
        eq == Cardinality({j \in DOMAIN vals : FracEq(vals[j], vals[i])})
    IN  Num(2 * less + eq + 1, 2 * Len(vals))

\* the columns score_stocks adds to row i
scored_row(df, sigs, tm, i) ==
    LET n == Len(df)
        w == theme_score_of(df, sigs, tm, df[i].ticker)
        r20 == rank_series([j \in DOMAIN df |-> fillna(df[j].momentum_20)], i)
        r60 == rank_series([j \in DOMAIN df |-> fillna(df[j].momentum_60)], i)
        rv == rank_series([j \in DOMAIN df |-> fillna(df[j].avg_volume_20)], i)
    IN  df[i] @@
        [theme_score |-> Num(w, 10),
         momentum_20_rank |-> r20,
         momentum_60_rank |-> r60,
         volume_rank |-> rv,
         final_score |-> Num(2 * n * w + 5 * r20.num + 3 * r60.num + 2 * rv.num,
                             20 * n)]

\* hit_map[ticker]: one entry per signal with a detail, in catalog order
hit_entries(df, sigs, tm, t) ==
    LET hits == SelectSeq(sigs, LAMBDA sig : hit_detail(df, tm, sig, t).hit)
    IN  [k \in DOMAIN hits |->
            LET d == hit_detail(df, tm, hits[k], t)
            IN  [signal_id |-> hits[k].id, theme |-> hits[k].core_theme,
                 signal_theme |-> hits[k].theme, weight |-> hits[k].weight,
                 match_paths |-> d.match_paths,
                 matched_terms |-> d.matched_terms,
                 matched_source |-> d.matched_source]]

\* score_stocks(indicator_df, signals, theme_map)
score_stocks(df, sigs, tm) ==
    [scored |-> [i \in DOMAIN df |-> scored_row(df, sigs, tm, i)],
     hit_map |->
        LET hit_tickers == {t \in {df[i].ticker : i \in DOMAIN df} :
                               \E k \in DOMAIN sigs : hit_detail(df, tm, sigs[k], t).hit}
        IN  [t \in hit_tickers |-> hit_entries(df, sigs, tm, t)]]

----------------------------------------------------------------------------
(* Report builder: src/report.py build_report *)

FracAdd(x, y) == Num(x.num * y.den + y.num * x.den, x.den * y.den)
FracScale(n, d, x) == Num(n * x.num, d * x.den)

RECURSIVE Perms(_)
\* the orders of a finite set
Perms(S) ==
    IF S = {} THEN {<<>>}
    ELSE UNION {{<<x>> \o q : q \in Perms(S \ {x})} : x \in S}

\* DataFrame.sort_values(col, ascending=False): the default kind is
\* quicksort, which is not stable, so rows with equal keys may come out in
\* any order.  The result is the set of row orders the sort may return.
sort_values_desc(df, col) ==
    {ord \in Perms(DOMAIN df) :
        \A k \in 1..(Len(df) - 1) : ~FracLess(df[ord[k]][col], df[ord[k + 1]][col])}

\* DataFrame.head(n)
head(df, n) ==
    IF n >= 0 THEN SubSeq(df, 1, IF n < Len(df) THEN n ELSE Len(df))
    ELSE SubSeq(df, 1, IF Len(df) + n > 0 THEN Len(df) + n ELSE 0)

RECURSIVE unique(_)
\* the distinct elements of a sequence in first-seen order
unique(q) ==
    IF q = <<>> THEN <<>>
    ELSE LET r == unique(SubSeq(q, 1, Len(q) - 1))
         IN  IF q[Len(q)] \in Range(r) THEN r ELSE Append(r, q[Len(q)])

\* merged_hits.values(): one entry per core theme, in first-seen order
merged_hits(hits) ==
    LET themes == unique([k \in DOMAIN hits |-> hits[k].theme])
    IN  [n \in DOMAIN themes |->
            LET hs == SelectSeq(hits, LAMBDA h : h.theme = themes[n])
            IN  [signal_id |-> hs[1].signal_id,
                 signal_ids |-> {hs[k].signal_id : k \in DOMAIN hs} \ {""},
                 signal_theme |-> hs[1].signal_theme,
                 signal_themes |-> {hs[k].signal_theme : k \in DOMAIN hs} \ {""},
                 theme |-> themes[n],
                 weight |-> SeqSum([k \in DOMAIN hs |-> hs[k].weight], 1, Len(hs)),
                 match_paths |-> UNION {hs[k].match_paths : k \in DOMAIN hs},
                 matched_terms |-> UNION {hs[k].matched_terms : k \in DOMAIN hs},
                 matched_source |-> UNION {hs[k].matched_source : k \in DOMAIN hs}]]

\* hit_map.get(row["ticker"], [])
hits_of(hm, t) == IF t \in DOMAIN hm THEN hm[t] ELSE <<>>

\* row[col] on a row without that column raises KeyError
KeyError(col) == [kind |-> "KeyError", key |-> col]
has_column(row, col) == col \in DOMAIN row

\* the columns the loop body of build_report reads with row[...]
ReportColumns ==
    {"ticker", "name", "momentum_20_rank", "momentum_60_rank", "volume_rank",
     "theme_score", "technical_score", "final_score", "industry",
     "momentum_20", "momentum_60", "volatility_20", "avg_volume_20"}

\* the f"{x:.3f}" rendering of a float, kept as its number of thousandths
format_3f(x) == (2000 * x.num + x.den) \div (2 * x.den)

\* the component names of `contributions` in ascending string order
ComponentNames == <<"momentum_20", "momentum_60", "theme", "volume">>
NameIndex(name) == CHOOSE k \in DOMAIN ComponentNames : ComponentNames[k] = name

\* `contributions` (report.py 130-135) for a row with these rank columns
contributions(row) ==
    LET item(name, prefix, value) ==
            [name |-> name, value |-> value,
             text |-> [prefix |-> prefix, thousandths |-> format_3f(value)]]
    IN  <<item("theme", "theme", row.theme_score),
          item("momentum_20", "tech_momentum_20",
               FracScale(5, 10, row.momentum_20_rank)),
          item("momentum_60", "tech_momentum_60",
               FracScale(3, 10, row.momentum_60_rank)),
          item("volume", "tech_volume", FracScale(2, 10, row.volume_rank))>>

\* contributions.sort(key=lambda x: (-x[1], x[0])) and the first three
\* texts (report.py 136-137)
why_in_top5(row) ==
    LET by_key == SortSeq(contributions(row), LAMBDA a, b :
                     \/ FracLess(b.value, a.value)
                     \/ /\ FracEq(a.value, b.value)
                        /\ NameIndex(a.name) < NameIndex(b.name))
    IN  [k \in 1..3 |-> by_key[k].text]

\* concept_hits (report.py 120-128): the membership labels of the row, when
\* its concept or its industry is not empty
concept_hits(row) ==
    IF row.concept # <<>> \/ row.industry # <<>>
    THEN <<[concept |-> row.concept, industry |-> row.industry,
            evidence |-> "membership"]>>
    ELSE <<>>

RECURSIVE pad_from_file(_, _)
\* report.py 30-34: themes of the file are added while fewer than 3 are seen
pad_from_file(seen, fallback) ==
    IF fallback = <<>> \/ Len(seen) >= 3 THEN seen
    ELSE pad_from_file(IF Head(fallback) \in Range(seen) THEN seen
                       ELSE Append(seen, Head(fallback)),
                       Tail(fallback))

\* f"theme_pad_{idx}"
placeholder(idx) == <<"theme_pad_1", "theme_pad_2", "theme_pad_3">>[idx]

RECURSIVE pad_placeholders(_, _)
\* report.py 41-46: the loop over idx in range(1, 4), from idx on
pad_placeholders(seen, idx) ==
    IF idx > 3 THEN seen
    ELSE LET next == IF placeholder(idx) \in Range(seen) THEN seen
                     ELSE Append(seen, placeholder(idx))
         IN  IF Len(next) >= 3 THEN next ELSE pad_placeholders(next, idx + 1)

\* report.normalize_themes_used(base_themes, "theme_to_industry.csv"); the
\* theme cells of the model carry no surrounding blanks for strip() to drop
normalize_themes_used(base_themes, file) ==
    LET seen == unique(SelectSeq(base_themes, LAMBDA th : th # ""))
        candidates == IF file.kind = "file" THEN file.core_theme ELSE <<>>
        fallback == unique(SelectSeq(candidates, LAMBDA th : th # ""))
        padded == pad_from_file(seen, fallback)
        cut == IF Len(padded) > 5 THEN SubSeq(padded, 1, 5) ELSE padded
    IN  IF Len(cut) < 3 THEN pad_placeholders(cut, 1) ELSE cut

\* themes_used_list (report.py 117-118) for the merged hits of a row
themes_used_list(themes_used, hits) ==
    LET hit_themes == [k \in DOMAIN hits |-> hits[k].theme]
        base_themes == IF themes_used # <<>> THEN themes_used
                       ELSE SelectSeq(hit_themes, LAMBDA th : th # "")
    IN  normalize_themes_used(base_themes, theme_to_industry_csv)

\* one element of `rows`, for a row that has every column read
report_row(row, hm, themes_used) ==
    LET hits == merged_hits(hits_of(hm, row.ticker))
        tech_components ==
            [momentum_20 |-> FracScale(5, 10, row.momentum_20_rank),
             momentum_60 |-> FracScale(3, 10, row.momentum_60_rank),
             volume |-> FracScale(2, 10, row.volume_rank)]
        score_theme_total == row.theme_score
        score_tech_total == row.technical_score
    IN  [ticker |-> row.ticker,
         name |-> row.name,
         industry |-> row.industry,
         final_score |-> row.final_score,
         theme_hits |-> hits,
         reason_struct |-> [themes_used |-> themes_used_list(themes_used, hits),
                            concept_hits |-> concept_hits(row),
                            why_in_top5 |-> why_in_top5(row)],
         score_breakdown |->
            [score_total |-> FracAdd(score_theme_total, score_tech_total),
             score_tech_total |-> score_tech_total,
             score_theme_total |-> score_theme_total,
             tech_components |-> tech_components,
             theme_score |-> row.theme_score,
             momentum_20_rank |-> row.momentum_20_rank,
             momentum_60_rank |-> row.momentum_60_rank,
             volume_rank |-> row.volume_rank,
             final_score |-> row.final_score]]

\* build_report(scored_df, signals, hit_map, as_of, top_n, themes_used),
\* `ord` being the row order its sort_values returned and an absent
\* themes_used being the empty list: the report, or the KeyError of the first
\* row that lacks a column
build_report(df, ord, hm, asof, n, themes_used) ==
    LET top_df == head([k \in DOMAIN ord |-> df[ord[k]]], n)
        bad == {k \in DOMAIN top_df : ~(ReportColumns \subseteq DOMAIN top_df[k])}
    IN  IF bad # {}
        THEN LET k == CHOOSE k \in bad : \A j \in bad : k <= j
             IN  KeyError(CHOOSE c \in ReportColumns \ DOMAIN top_df[k] : TRUE)
        ELSE [kind |-> "report", as_of |-> asof, top_n |-> n,
              count |-> Len(top_df),
              results |-> [k \in DOMAIN top_df |->
                             report_row(top_df[k], hm, themes_used)]]

----------------------------------------------------------------------------
(* Inputs of the scorer and report-builder harness *)

MaxTop == 2

LabelNone == <<>>
LabelDesc == <<"a", "i", "x">>
KwAI == <<"A", "I">>
KwChip == <<"c", "h", "i", "p">>
KwI == <<"i">>

\* the label columns a row may carry: a concept of the ticker, or none (the
\* universe fallback blanks the three columns)
LabelsAI == [industry |-> LabelAI, concept |-> LabelAI, description |-> LabelNone]
LabelsChip == [industry |-> LabelChip, concept |-> LabelChip, description |-> LabelDesc]
LabelsNone == [industry |-> LabelNone, concept |-> LabelNone, description |-> LabelNone]

\* the indicator values a row may carry; 3 is a row with too little history
IndicatorsOf(v) ==
    CASE v = 1 -> [momentum_20 |-> Num(1, 10), momentum_60 |-> Num(2, 10),
                   avg_volume_20 |-> Num(2000, 20), indicator_missing |-> FALSE]
      [] v = 2 -> [momentum_20 |-> Num(1, 10), momentum_60 |-> Num(-1, 10),
                   avg_volume_20 |-> Num(3000, 20), indicator_missing |-> FALSE]
      [] OTHER -> [momentum_20 |-> Zero, momentum_60 |-> Zero,
                   avg_volume_20 |-> Zero, indicator_missing |-> TRUE]

IndicatorRow(asof, t, labels, v) ==
    [date |-> asof, ticker |-> t, name |-> "STOCK",
     industry |-> labels.industry, concept |-> labels.concept,
     description |-> labels.description, close |-> 10, volume |-> 100,
     momentum_20 |-> IndicatorsOf(v).momentum_20,
     momentum_60 |-> IndicatorsOf(v).momentum_60,
     volatility_20 |-> ZeroStd,
     avg_volume_20 |-> IndicatorsOf(v).avg_volume_20,
     indicator_missing |-> IndicatorsOf(v).indicator_missing]

\* the rows of one ticker in an indicator table: none, one row, or one row
\* per membership row of the ticker (the snapshot join)
LabelProfiles(t) ==
    CASE t = 1 -> {<<>>, <<LabelsAI>>, <<LabelsChip>>, <<LabelsNone>>,
                   <<LabelsAI, LabelsChip>>, <<LabelsChip, LabelsAI>>}
      [] t = 2 -> {<<>>, <<LabelsChip>>, <<LabelsAI, LabelsChip>>}
      [] OTHER -> {<<>>, <<LabelsAI>>}
IndicatorVariants(t) == IF t = 1 THEN {1, 2, 3} ELSE IF t = 2 THEN {1, 2} ELSE {1}
ScTickers == {1, 2, 3}

TickerRows(asof, t, prof, v) ==
    [k \in DOMAIN prof |-> IndicatorRow(asof, t, prof[k], v)]

Signal(id, theme, core, kws, w) ==
    [id |-> id, theme |-> theme, core_theme |-> core, keywords |-> kws, weight |-> w]

\* signal weights in tenths
WeightChoices == {<<10, 6, 0>>, <<6, 3, 3>>, <<10, 0, -3>>, <<5, 3, 0>>}

Catalog(w) ==
    <<Signal("signal_001", "AI", "AI", <<KwAI>>, w[1]),
      Signal("signal_002", "Chips", "AI", <<KwChip>>, w[2]),
      Signal("signal_009", "Risk", "Risk", <<KwI>>, w[3])>>

Entry(type, values) == [type |-> type, values |-> values]

ThemeMaps ==
    {<<>>,
     ("signal_001" :> <<Entry("concept", <<LabelAI>>)>>),
     ("signal_001" :> <<Entry("concept", <<LabelAI>>),
                        Entry("ticker", <<ticker_str(1)>>)>>)
        @@ ("signal_002" :> <<Entry("industry", <<LabelChip>>)>>),
     ("signal_002" :> <<Entry("ticker", <<ticker_str(2), ticker_str(3)>>)>>)
        @@ ("signal_009" :> <<Entry("concept", <<LabelChip>>)>>)}

NoReport == [kind |-> "none"]

IndIdle ==
    /\ ind_pc = "off" /\ price_df = <<>> /\ alt_df = <<>>
    /\ alt_indicator_df = <<>>

ScInit ==
    /\ IndIdle
    /\ RunIdle
    /\ as_of \in AsOfDates
    /\ \E p1 \in LabelProfiles(1), p2 \in LabelProfiles(2), p3 \in LabelProfiles(3),
          v1 \in IndicatorVariants(1), v2 \in IndicatorVariants(2),
          v3 \in IndicatorVariants(3) :
         /\ (p1 = <<>> => v1 = 1) /\ (p2 = <<>> => v2 = 1)
         /\ indicator_df = TickerRows(as_of, 1, p1, v1)
                           \o TickerRows(as_of, 2, p2, v2)
                           \o TickerRows(as_of, 3, p3, v3)
    /\ \E w \in WeightChoices : signals = Catalog(w)
    /\ theme_map \in ThemeMaps
    /\ top_n \in 0..MaxTop
    /\ sc_pc = "input"
    /\ scored_df = <<>> /\ hit_map = <<>> /\ report = NoReport
    /\ alt_scored_df = <<>> /\ alt_hit_map = <<>> /\ alt_report = NoReport

\* scored, hit_map = score_stocks(indicators, signals, theme_map)
Score ==
    /\ sc_pc = "input"
    /\ sc_pc' = "scored"
    /\ scored_df' = score_stocks(indicator_df, signals, theme_map).scored
    /\ hit_map' = score_stocks(indicator_df, signals, theme_map).hit_map
    /\ UNCHANGED <<as_of, indicator_df, signals, theme_map, top_n, report,
                   alt_scored_df, alt_hit_map, alt_report>>
    /\ UNCHANGED ind_vars
    /\ UNCHANGED run_vars

\* report = build_report(scored, signals, hit_map, as_of, top_n)
BuildReport ==
    /\ sc_pc = "scored"
    /\ sc_pc' = "reported"
    /\ \E ord \in sort_values_desc(scored_df, "final_score") :
          report' = build_report(scored_df, ord, hit_map, as_of, top_n, <<>>)
    /\ UNCHANGED <<as_of, indicator_df, signals, theme_map, top_n, scored_df,
                   hit_map, alt_scored_df, alt_hit_map, alt_report>>
    /\ UNCHANGED ind_vars
    /\ UNCHANGED run_vars

\* the second, independent execution on the same inputs
ScoreAgain ==
    /\ sc_pc = "reported"
    /\ sc_pc' = "rescored"
    /\ alt_scored_df' = score_stocks(indicator_df, signals, theme_map).scored
    /\ alt_hit_map' = score_stocks(indicator_df, signals, theme_map).hit_map
    /\ UNCHANGED <<as_of, indicator_df, signals, theme_map, top_n, scored_df,
                   hit_map, report, alt_report>>
    /\ UNCHANGED ind_vars
    /\ UNCHANGED run_vars

BuildReportAgain ==
    /\ sc_pc = "rescored"
    /\ sc_pc' = "rereported"
    /\ \E ord \in sort_values_desc(alt_scored_df, "final_score") :
          alt_report' = build_report(alt_scored_df, ord, alt_hit_map, as_of, top_n,
                                     <<>>)
    /\ UNCHANGED <<as_of, indicator_df, signals, theme_map, top_n, scored_df,
                   hit_map, report, alt_scored_df, alt_hit_map>>
    /\ UNCHANGED ind_vars
    /\ UNCHANGED run_vars

ScNext == Score \/ BuildReport \/ ScoreAgain \/ BuildReportAgain

SpecScore == ScInit /\ [][ScNext]_vars

----------------------------------------------------------------------------
(* C8 *)

\* the hit set of a signal as the claim words it: the tickers with a row
\* whose ticker/concept/industry value is in the matching mapped term set, or
\* with a label that contains a keyword, case-insensitively
C8_MapMatch(sig, row) ==
    \E k \in DOMAIN entries_of(theme_map, sig.id) :
        LET e == entries_of(theme_map, sig.id)[k]
        IN  \/ e.type = "ticker" /\ ticker_str(row.ticker) \in Range(e.values)
            \/ e.type = "concept" /\ row.concept \in Range(e.values)
            \/ e.type = "industry" /\ row.industry \in Range(e.values)

C8_KeywordMatch(sig, row) ==
    \E k \in DOMAIN sig.keywords :
        \E col \in {"industry", "concept", "description"} :
            contains(lower(row[col]), lower(sig.keywords[k]))

C8_HitSet(sig) ==
    {indicator_df[i].ticker : i \in
        {j \in DOMAIN indicator_df :
            C8_MapMatch(sig, indicator_df[j]) \/ C8_KeywordMatch(sig, indicator_df[j])}}

C8_Sum(t) ==
    SeqSum([k \in DOMAIN signals |->
              IF signals[k].weight > 0 /\ t \in C8_HitSet(signals[k])
              THEN signals[k].weight ELSE 0], 1, Len(signals))

\* C8: score_stocks gives each ticker theme_score = the sum of the weights of
\* the signals with weight > 0 whose hit set (map matches united with keyword
\* matches) contains the ticker, each signal counted once.
C8_ThemeScoreIsWeightSum ==
    sc_pc = "scored" =>
        \A i \in DOMAIN scored_df :
            scored_df[i].theme_score = Num(C8_Sum(scored_df[i].ticker), 10)

OneRowPerTicker ==
    \A i, j \in DOMAIN indicator_df :
        indicator_df[i].ticker = indicator_df[j].ticker => i = j

C8_OneRowPerTicker ==
    (sc_pc = "scored" /\ OneRowPerTicker) =>
        \A i \in DOMAIN scored_df :
            scored_df[i].theme_score = Num(C8_Sum(scored_df[i].ticker), 10)

----------------------------------------------------------------------------
(* C3, C6, C7: the report rows *)

\* C3: build_report emits the report, and in every row score_total =
\* score_tech_total + score_theme_total, final_score equals that sum, and
\* score_tech_total is the sum of the three tech_components.
C3_ScoreTotalsAdd ==
    sc_pc = "reported" =>
        /\ report.kind = "report"
        /\ \A k \in DOMAIN report.results :
              LET r == report.results[k]
                  b == r.score_breakdown
                  c == b.tech_components
              IN  /\ FracEq(b.score_total,
                            FracAdd(b.score_tech_total, b.score_theme_total))
                  /\ FracEq(r.final_score, b.score_total)
                  /\ FracEq(b.score_tech_total,
                            FracAdd(c.momentum_20, FracAdd(c.momentum_60, c.volume)))

\* C6: two independent executions of scoring and report building on the same
\* signals, theme map, indicator rows and as-of date both emit a report, and
\* the two reports are identical (same tickers, same order, equal fields).
C6_Reproducible ==
    sc_pc = "rereported" =>
        /\ report.kind = "report"
        /\ alt_report.kind = "report"
        /\ report = alt_report

\* C7: build_report emits the report, and in every row theme_hits holds one
\* entry per core theme of the ticker's hits, which unions the signal ids,
\* signal themes, match_paths, matched_terms and matched_source of the hits
\* that share the core theme.
C7_OneEntryPerCoreTheme ==
    sc_pc = "reported" =>
        /\ report.kind = "report"
        /\ \A k \in DOMAIN report.results :
              LET r == report.results[k]
                  hits == hits_of(hit_map, r.ticker)
                  of(c) == {j \in DOMAIN hits : hits[j].theme = c}
              IN  /\ \A a, b \in DOMAIN r.theme_hits :
                        r.theme_hits[a].theme = r.theme_hits[b].theme => a = b
                  /\ {r.theme_hits[a].theme : a \in DOMAIN r.theme_hits}
                        = {hits[j].theme : j \in DOMAIN hits}
                  /\ \A a \in DOMAIN r.theme_hits :
                        LET e == r.theme_hits[a]
                            js == of(e.theme)
                        IN  /\ e.signal_ids = {hits[j].signal_id : j \in js}
                            /\ e.signal_themes = {hits[j].signal_theme : j \in js}
                            /\ e.match_paths = UNION {hits[j].match_paths : j \in js}
                            /\ e.matched_terms = UNION {hits[j].matched_terms : j \in js}
                            /\ e.matched_source = UNION {hits[j].matched_source : j \in js}

----------------------------------------------------------------------------
(* The run pipeline: src/utils.py, src/cache.py, src/theme_pipeline.py,    *)
(* src/data_provider.py, src/run.py                                        *)

None == [kind |-> "none"]

\* Timestamp.weekday(): 0 is Monday; day 0 of the day numbering is a Monday
weekday(d) == d % 7

\* a version that steps back one day from a weekend day
previous_day(d) == IF weekday(d) < 5 THEN d ELSE d - 1

\* utils.previous_trading_date
previous_trading_date(d) ==
    IF weekday(d) < 5 THEN d ELSE d - (weekday(d) - 4)

RECURSIVE str_int(_)
\* str(n) for n >= 0: the decimal digits
str_int(n) ==
    IF n < 10 THEN <<DigitChar[n]>>
    ELSE str_int(n \div 10) \o <<DigitChar[n % 10]>>

\* utils.read_text_hash: the digest of a file, kept as the text it digests
read_text_hash(text) == <<text>>

\* utils.stable_hash: the md5 of the concatenation of the parts, kept as the
\* concatenation it digests
stable_hash(parts) == Flatten(parts)

\* the cache key of a run (run.py 235-245)
cache_key(a, sigs, tm) ==
    stable_hash(<<str_int(a.date), str_int(a.top), <<a.provider>>,
                  read_text_hash(sigs), read_text_hash(tm)>>)

\* cache.load_cached: (cached_df, cached_report), None for a missing file
load_cached(c, key) ==
    [df |-> IF key \in DOMAIN c /\ c[key].data.kind = "file"
            THEN c[key].data ELSE None,
     report |-> IF key \in DOMAIN c /\ c[key].report.kind = "file"
                THEN c[key].report.content ELSE None]

\* cache.save_cached: the three files of the key are rewritten
save_cached(c, key, df, rep, meta) ==
    [k \in DOMAIN c \cup {key} |->
        IF k = key
        THEN [data |-> [kind |-> "file", content |-> df],
              report |-> [kind |-> "file", content |-> rep],
              meta |-> [kind |-> "file", content |-> meta]]
        ELSE c[k]]

\* cache.save_cached ended after its first n file writes (features, report,
\* meta, in this order): the files not reached stay as they were
save_cached_interrupted(c, key, df, rep, meta, n) ==
    LET old == IF key \in DOMAIN c THEN c[key]
               ELSE [data |-> None, report |-> None, meta |-> None]
    IN  [k \in DOMAIN c \cup {key} |->
            IF k = key
            THEN [data |-> IF n >= 1 THEN [kind |-> "file", content |-> df]
                           ELSE old.data,
                  report |-> IF n >= 2 THEN [kind |-> "file", content |-> rep]
                             ELSE old.report,
                  meta |-> IF n >= 3 THEN [kind |-> "file", content |-> meta]
                           ELSE old.meta]
            ELSE c[k]]

\* compute_issue_lists(report, top_n, fallback_used, provider_fallback,
\* warnings): the fatal list, the warnings being returned unchanged
compute_issue_lists_no_shortfall(results, top, fallback_used, provider_fallback) ==
    (IF provider_fallback THEN <<"provider_fallback">> ELSE <<>>)
    \o (IF fallback_used THEN <<"fallback_used:theme_insufficient">> ELSE <<>>)

compute_issue_lists(results, top, fallback_used, provider_fallback) ==
    (IF Len(results) < top THEN <<"insufficient_results">> ELSE <<>>)
    \o (IF provider_fallback THEN <<"provider_fallback">> ELSE <<>>)
    \o (IF fallback_used THEN <<"fallback_used:theme_insufficient">> ELSE <<>>)

\* the character the model writes for the ideographic comma U+3001
IdeographicComma == "/"

\* the characters of TERM_SPLIT_RE that the texts of the model use
Delimiters == {",", ";", IdeographicComma, "|", " "}

RECURSIVE split(_, _)
\* re.split on runs of delimiters: the pieces, with `cur` the piece being read
split(str, cur) ==
    IF str = <<>> THEN <<cur>>
    ELSE IF Head(str) \in Delimiters
         THEN <<cur>> \o split(Tail(str), <<>>)
         ELSE split(Tail(str), Append(cur, Head(str)))

\* theme_pipeline._split_terms
split_terms(value) ==
    LET pieces == split(value, <<>>)
        stripped == [k \in DOMAIN pieces |-> strip(pieces[k])]
    IN  SelectSeq(stripped, LAMBDA x : x # <<>>)

RECURSIVE extract_loop(_, _, _)
\* the loop of DefaultThemeExtractor.extract over the signals not yet read:
\* the theme is appended first, the length is compared with the cap after
extract_loop(sigs, seen, cap) ==
    IF sigs = <<>> THEN seen
    ELSE LET theme == Head(sigs).core_theme
             seen2 == IF theme # "" /\ theme \notin Range(seen)
                      THEN Append(seen, theme) ELSE seen
         IN  IF Len(seen2) >= cap THEN seen2
             ELSE extract_loop(Tail(sigs), seen2, cap)

\* DefaultThemeExtractor(max_themes = cap).extract(signals)
extract_max_themes(sigs, cap) == extract_loop(sigs, <<>>, cap)

\* DefaultThemeExtractor.extract with max_themes = 5
max_themes == 5
extract(sigs) == extract_max_themes(sigs, max_themes)

\* the characters of the texts of the model, in code-point order
Alphabet ==
    <<" ", ",", "/", "0", "1", "2", "3", ";", "A", "C", "I", "N",
      "a", "c", "h", "i", "n", "p", "x", "|">>
Ord(c) == CHOOSE k \in DOMAIN Alphabet : Alphabet[k] = c

RECURSIVE StrLess(_, _)
\* a < b for two strings
StrLess(a, b) ==
    IF b = <<>> THEN FALSE
    ELSE IF a = <<>> THEN TRUE
    ELSE IF Head(a) = Head(b) THEN StrLess(Tail(a), Tail(b))
    ELSE Ord(Head(a)) < Ord(Head(b))

RECURSIVE sorted(_)
\* sorted(S) for a set of strings
sorted(S) ==
    IF S = {} THEN <<>>
    ELSE LET m == CHOOSE x \in S : \A y \in S \ {x} : StrLess(x, y)
         IN  <<m>> \o sorted(S \ {m})

RECURSIVE split_on(_, _, _)
\* str.split(sep) for a one-character separator
split_on(str, sep, cur) ==
    IF str = <<>> THEN <<cur>>
    ELSE IF Head(str) = sep
         THEN <<cur>> \o split_on(Tail(str), sep, <<>>)
         ELSE split_on(Tail(str), sep, Append(cur, Head(str)))

\* signals.load_theme_industry_map: signal id -> entries, in row order
map_values_of(file, row) ==
    LET cell == IF file.has_new_format THEN row.map_values ELSE row.cell
        pieces == split_on(cell, IdeographicComma, <<>>)
        stripped == [k \in DOMAIN pieces |-> strip(pieces[k])]
    IN  SelectSeq(stripped, LAMBDA x : x # <<>>)

load_theme_industry_map(file) ==
    LET kept == SelectSeq(file.rows, LAMBDA r : map_values_of(file, r) # <<>>)
        ids == {kept[k].id : k \in DOMAIN kept}
    IN  [sid \in ids |->
            LET mine == SelectSeq(kept, LAMBDA r : r.id = sid)
            IN  [k \in DOMAIN mine |->
                    [type |-> IF file.has_new_format THEN mine[k].map_type
                              ELSE "concept",
                     values |-> map_values_of(file, mine[k])]]]

\* the raw term cell of a theme-map row: the keyword cell, else the
\* industry/concept cell, else nothing
raw_term_of(row) ==
    LET kw == strip(row.keyword)
    IN  IF kw # <<>> /\ lower(kw) # NanStr THEN kw
        ELSE LET c == strip(row.cell)
             IN  IF c # <<>> /\ lower(c) # NanStr THEN c ELSE <<>>

\* theme_pipeline._terms_from_theme_map_csv: theme name -> set of terms
terms_from_theme_map_csv(file) ==
    IF ~file.has_name THEN <<>>
    ELSE LET ok == SelectSeq(file.rows, LAMBDA r :
                      r.name # "" /\ split_terms(raw_term_of(r)) # <<>>)
         IN  [th \in {ok[k].name : k \in DOMAIN ok} |->
                UNION {Range(split_terms(raw_term_of(ok[k]))) :
                         k \in {j \in DOMAIN ok : ok[j].name = th}}]

\* theme_pipeline._theme_map_stats_from_csv[0]: as above, but a theme whose
\* rows hold no term is kept with an empty set
theme_map_stats_from_csv(file) ==
    IF ~file.has_name THEN <<>>
    ELSE LET named == SelectSeq(file.rows, LAMBDA r : r.name # "")
         IN  [th \in {named[k].name : k \in DOMAIN named} |->
                UNION {Range(split_terms(raw_term_of(named[k]))) :
                         k \in {j \in DOMAIN named : named[j].name = th}}]

\* theme_pipeline._terms_from_theme_map: key -> the split values of its entries
terms_from_theme_map(tm) ==
    [sid \in DOMAIN tm |->
        UNION {UNION {Range(split_terms(tm[sid][k].values[n])) :
                        n \in DOMAIN tm[sid][k].values} : k \in DOMAIN tm[sid]}]

\* DefaultConceptMapper._signal_candidate_keys: a Signal has a theme only
signal_candidate_keys(sig) == IF sig.theme # "" THEN <<sig.theme>> ELSE <<>>

\* a version of the mapper whose fallback also replaces direct entries
mapper_map_overwriting(sigs, tm, themes, file) ==
    LET allowed == IF themes # <<>>
                   THEN {sigs[k].id : k \in {j \in DOMAIN sigs :
                                               sigs[j].core_theme \in Range(themes)}}
                   ELSE {sigs[k].id : k \in DOMAIN sigs}
        theme_terms == terms_from_theme_map_csv(file)
        matched(sig) ==
            UNION {theme_terms[key] :
                     key \in Range(signal_candidate_keys(sig)) \cap DOMAIN theme_terms}
        filled == {k \in DOMAIN sigs : sigs[k].id \in allowed /\ matched(sigs[k]) # {}}
        first(sid) == CHOOSE k \in filled :
                         /\ sigs[k].id = sid
                         /\ \A j \in filled : sigs[j].id = sid => k <= j
    IN  [sid \in {s2 \in DOMAIN tm : s2 \in allowed}
                 \cup {sigs[k].id : k \in filled} |->
            IF sid \in {sigs[k].id : k \in filled}
            THEN <<[type |-> "concept", values |-> sorted(matched(sigs[first(sid)]))]>>
            ELSE tm[sid]]

\* DefaultConceptMapper.map[2]: signal id -> the first candidate key of the
\* signal that resolved in the term dictionary, for the ids the fallback filled
mapper_key_map(sigs, tm, themes, file) ==
    LET allowed == IF themes # <<>>
                   THEN {sigs[k].id : k \in {j \in DOMAIN sigs :
                                               sigs[j].core_theme \in Range(themes)}}
                   ELSE {sigs[k].id : k \in DOMAIN sigs}
        theme_terms == terms_from_theme_map_csv(file)
        direct(sid) == sid \in DOMAIN tm /\ sid \in allowed /\ tm[sid] # <<>>
        matched_keys(sig) ==
            SelectSeq(signal_candidate_keys(sig),
                      LAMBDA key : key \in DOMAIN theme_terms /\ theme_terms[key] # {})
        filled == {k \in DOMAIN sigs :
                     /\ sigs[k].id \in allowed
                     /\ ~direct(sigs[k].id)
                     /\ matched_keys(sigs[k]) # <<>>}
        first(sid) == CHOOSE k \in filled :
                         /\ sigs[k].id = sid
                         /\ \A j \in filled : sigs[j].id = sid => k <= j
    IN  [sid \in {sigs[k].id : k \in filled} |-> matched_keys(sigs[first(sid)])[1]]

\* DefaultConceptMapper.map[0]: the mapped theme map
mapper_map(sigs, tm, themes, file) ==
    LET all == {sigs[k].id : k \in DOMAIN sigs}
        allowed == IF themes # <<>>
                   THEN {sigs[k].id : k \in {j \in DOMAIN sigs :
                                               sigs[j].core_theme \in Range(themes)}}
                   ELSE all
        theme_terms == terms_from_theme_map_csv(file)
        direct(sid) == sid \in DOMAIN tm /\ sid \in allowed /\ tm[sid] # <<>>
        matched(sig) ==
            UNION {theme_terms[key] :
                     key \in Range(signal_candidate_keys(sig)) \cap DOMAIN theme_terms}
        filled == {k \in DOMAIN sigs :
                     /\ sigs[k].id \in allowed
                     /\ ~direct(sigs[k].id)
                     /\ matched(sigs[k]) # {}}
        \* the first such signal of an id decides: the id is mapped after it
        first(sid) == CHOOSE k \in filled :
                         /\ sigs[k].id = sid
                         /\ \A j \in filled : sigs[j].id = sid => k <= j
    IN  [sid \in {s2 \in DOMAIN tm : s2 \in allowed}
                 \cup {sigs[k].id : k \in filled} |->
            IF sid \in {sigs[k].id : k \in filled}
            THEN <<[type |-> "concept", values |-> sorted(matched(sigs[first(sid)]))]>>
            ELSE tm[sid]]

\* membership_terms_by_ticker (run.py 305-318): ticker -> its concept and
\* industry values (the three header words the code drops are outside the
\* alphabet of the model)
membership_terms_of(membership) ==
    [t \in {membership[k].ticker : k \in DOMAIN membership} |->
        {term \in UNION {{strip(membership[k].concept), strip(membership[k].industry)} :
                           k \in {j \in DOMAIN membership : membership[j].ticker = t}} :
            term # <<>> /\ lower(term) # NanStr}]

\* build_snapshot_candidates: the candidate tickers and their source
build_snapshot_candidates(mapped, snap, terms_by_ticker, file) ==
    LET csv == theme_map_stats_from_csv(file)
        theme_terms == IF DOMAIN csv # {} THEN csv ELSE terms_from_theme_map(mapped)
        mapped_terms == UNION {theme_terms[th] : th \in DOMAIN theme_terms}
        theme_tickers == {t \in DOMAIN terms_by_ticker :
                            terms_by_ticker[t] \cap mapped_terms # {}}
    IN  IF theme_tickers = {}
        THEN [candidates |-> {snap.prices[k].ticker : k \in DOMAIN snap.prices},
              candidate_source |-> "universe_fallback"]
        ELSE [candidates |-> theme_tickers, candidate_source |-> "theme"]

\* DataFrame.groupby("ticker").tail(n) of a frame sorted by ticker and date
tail(df, n) ==
    SelectSeq([k \in DOMAIN df |-> [row |-> df[k], k |-> k]],
              LAMBDA p : Cardinality({j \in DOMAIN df :
                            j > p.k /\ df[j].ticker = p.row.ticker}) < n)

\* prices.merge(membership, on="ticker", how="left"), with the columns
\* get_price_history keeps: one row per membership row of the bar's ticker,
\* and one row with missing labels for a ticker without membership rows
merge(prices, membership) ==
    Flatten([k \in DOMAIN prices |->
        LET p == prices[k]
            ms == SelectSeq(membership, LAMBDA m : m.ticker = p.ticker)
        IN  IF ms = <<>>
            THEN <<[date |-> p.date, ticker |-> p.ticker, name |-> "nan",
                    industry |-> NanStr, concept |-> NanStr,
                    description |-> NanStr,
                    close |-> p.close, volume |-> p.volume]>>
            ELSE [n \in DOMAIN ms |->
                    [date |-> p.date, ticker |-> p.ticker, name |-> ms[n].name,
                     industry |-> ms[n].industry, concept |-> ms[n].concept,
                     description |-> ms[n].description,
                     close |-> p.close, volume |-> p.volume]]])

lookback_days == 130

\* SnapshotProvider.get_price_history
get_price_history(snap, tickers, end_date) ==
    LET mine == SelectSeq(snap.prices, LAMBDA r : r.ticker \in tickers)
        past == sort_values_ticker_date(SelectSeq(mine, LAMBDA r : r.date <= end_date))
        kept == tail(past, lookback_days)
    IN  merge([k \in DOMAIN kept |-> kept[k].row], snap.membership)

min_history == 61

\* history_counts (run.py 380): the rows dated <= as_of of each ticker
history_counts(df, asof) ==
    [t \in {df[k].ticker : k \in {j \in DOMAIN df : df[j].date <= asof}} |->
        Cardinality({k \in DOMAIN df : df[k].ticker = t /\ df[k].date <= asof})]

\* the rows of the tickers with enough history (run.py 380-385)
history_filter(df, asof) ==
    LET counts == history_counts(df, asof)
        valid_tickers == {t \in DOMAIN counts : counts[t] >= min_history}
    IN  SelectSeq(df, LAMBDA r : r.ticker \in valid_tickers)

\* dict.get(field, default)
get(rec, field, default) == IF field \in DOMAIN rec THEN rec[field] ELSE default

\* a version of the primary selection that keeps the rows with a theme score
themed_selection(scored, ord, top) ==
    head(SelectSeq([k \in DOMAIN ord |-> scored[ord[k]]],
                   LAMBDA r : FracLess(Zero, r.theme_score)), top)

\* the selection of run.py 412-420 for the row order `ord` the sort of
\* final_score returned and the order `ford` the sort of technical_score
\* returned when the fallback fill runs
primary_selection(scored, ord, top) == head([k \in DOMAIN ord |-> scored[ord[k]]], top)

fallback_taken(scored, ord, top) ==
    Len(primary_selection(scored, ord, top)) < top /\ Len(scored) >= top

remaining_rows(scored, ord, top) ==
    SelectSeq(scored, LAMBDA r :
        r.ticker \notin {primary_selection(scored, ord, top)[k].ticker :
                           k \in DOMAIN primary_selection(scored, ord, top)})

\* the orders sort_values("technical_score") may return for the fallback fill
fallback_orders(scored, ord, top) ==
    LET remaining == remaining_rows(scored, ord, top)
    IN  IF ~fallback_taken(scored, ord, top) THEN {<<>>}
        ELSE IF \E k \in DOMAIN remaining : ~has_column(remaining[k], "technical_score")
        THEN {<<>>}
        ELSE sort_values_desc(remaining, "technical_score")

select(scored, ord, ford, top) ==
    LET selected == primary_selection(scored, ord, top)
        remaining == remaining_rows(scored, ord, top)
    IN  IF ~fallback_taken(scored, ord, top)
        THEN [kind |-> "ok", selected |-> selected, fallback_used |-> FALSE]
        ELSE IF \E k \in DOMAIN remaining : ~has_column(remaining[k], "technical_score")
        THEN KeyError("technical_score")
        ELSE [kind |-> "ok",
              selected |-> selected \o head([k \in DOMAIN ford |-> remaining[ford[k]]],
                                            top - Len(selected)),
              fallback_used |-> TRUE]

\* the theme_weight = 0 ablation of run.py 408-411
ablate(scored, theme_weight) ==
    IF theme_weight # 0 THEN [kind |-> "ok", scored |-> scored]
    ELSE IF \E k \in DOMAIN scored : ~has_column(scored[k], "technical_score")
    THEN KeyError("technical_score")
    ELSE [kind |-> "ok",
          scored |-> [k \in DOMAIN scored |->
                        [scored[k] EXCEPT !.theme_score = Zero,
                                          !.final_score = scored[k].technical_score]]]

\* a version of the report of run.py 397-404 that counts the requested rows
empty_report_counting_top(asof, top) ==
    [kind |-> "report", as_of |-> asof, data_date |-> asof, top_n |-> top,
     count |-> top, results |-> <<>>]

\* the report of run.py 397-404
empty_report(asof, top) ==
    [kind |-> "report", as_of |-> asof, data_date |-> asof, top_n |-> top,
     count |-> 0, results |-> <<>>]

\* a version of run.py 444-468 whose counter also counts the warnings
with_meta_counting_warnings(rep, top, loc, n_scored) ==
    LET warnings == (IF n_scored = 0 THEN <<"no_candidates_after_filters">> ELSE <<>>)
                    \o (IF loc.fallback_all_universe
                        THEN <<"fallback_all_universe_no_theme_hits">> ELSE <<>>)
        issue_list == compute_issue_lists(rep.results, top, loc.fallback_used,
                                          loc.provider_fallback)
    IN  [meta |-> [issue_list |-> issue_list, scored_count |-> n_scored,
                   provider_fallback |-> loc.provider_fallback],
         issues |-> Len(issue_list) + Len(warnings),
         debug |-> [warnings |-> warnings]] @@ rep

\* run.py 444-468: the report with its meta, issues and debug.warnings
with_meta(rep, top, loc, n_scored) ==
    LET warnings == (IF n_scored = 0 THEN <<"no_candidates_after_filters">> ELSE <<>>)
                    \o (IF loc.fallback_all_universe
                        THEN <<"fallback_all_universe_no_theme_hits">> ELSE <<>>)
        issue_list == compute_issue_lists(rep.results, top, loc.fallback_used,
                                          loc.provider_fallback)
        base == [excluded |-> [insufficient_history_60 |-> loc.insufficient_history_60],
                 min_history |-> min_history,
                 universe_count |-> loc.universe_count,
                 scored_count |-> n_scored,
                 provider_fallback |-> loc.provider_fallback,
                 issue_list |-> issue_list]
        meta == IF loc.fallback_used
                THEN [fallback_used |-> TRUE, fallback_reason |-> "theme_insufficient"]
                     @@ base
                ELSE base
    IN  [meta |-> meta, issues |-> Len(issue_list),
         debug |-> [warnings |-> warnings]] @@ rep

\* run.py 252-271: the cached report with its issues recomputed
from_cached(rep, top) ==
    LET meta == get(rep, "meta", [excluded |-> [insufficient_history_60 |-> 0],
                                  min_history |-> 0])
        cached_top == get(rep, "top_n", top)
        fallback_used == get(meta, "fallback_used", FALSE)
        provider_fallback == get(meta, "provider_fallback", FALSE)
        warnings == get(get(rep, "debug", [warnings |-> <<>>]), "warnings", <<>>)
        issue_list == compute_issue_lists(get(rep, "results", <<>>), cached_top,
                                          fallback_used, provider_fallback)
    IN  [meta |-> [issue_list |-> issue_list] @@ meta,
         issues |-> Len(issue_list),
         debug |-> [warnings |-> warnings] @@ get(rep, "debug", [warnings |-> <<>>])]
        @@ rep

----------------------------------------------------------------------------
(* The files and command lines of the run pipeline *)

PriceBar(d, t) == [date |-> d, ticker |-> t, close |-> CloseOf(t, d),
                   volume |-> VolumeOf(t, d)]

\* the price rows of ticker t: `past` bars ending at date `last`
PriceRows(t, past, last) ==
    [n \in 1..past |-> PriceBar(last - past + n, t)]

\* the membership rows of ticker t: one per concept it belongs to
MembershipRows(t, n) ==
    [j \in 1..n |-> [ticker |-> t, name |-> "STOCK", concept |-> ConceptOf(j),
                     industry |-> ConceptOf(j), description |-> <<>>]]

SnapshotDate == CHOOSE d \in AsOfDates : TRUE
RunDates == {SnapshotDate, SnapshotDate + 1}

\* the snapshot directories a behaviour may start with: one directory, dated
\* SnapshotDate, whose tickers have these numbers of bars and concepts
SnapshotShapes(t) ==
    IF t = 1
    THEN {[past |-> 31, concepts |-> 2], [past |-> 60, concepts |-> 1],
          [past |-> 61, concepts |-> 1], [past |-> 61, concepts |-> 2]}
    ELSE {[past |-> 0, concepts |-> 1], [past |-> 61, concepts |-> 1]}

Snapshot(h1, h2) ==
    [prices |-> PriceRows(1, h1.past, SnapshotDate)
                \o PriceRows(2, h2.past, SnapshotDate),
     membership |-> MembershipRows(1, h1.concepts) \o MembershipRows(2, h2.concepts)]

MapRow(id, name, keyword, cell, type, values) ==
    [id |-> id, name |-> name, keyword |-> keyword, cell |-> cell,
     map_type |-> type, map_values |-> values]

\* the theme-map CSV files a behaviour may start with: four in the new format
\* (map_type, map_values), two in the old format with a theme-name column,
\* the last of them with a keyword cell beside its industry/concept cell
ThemeMapFiles ==
    {[has_name |-> FALSE, has_new_format |-> TRUE,
      rows |-> <<MapRow("signal_001", "", <<>>, <<>>, "concept", LabelAI)>>],
     [has_name |-> FALSE, has_new_format |-> TRUE,
      rows |-> <<MapRow("signal_001", "", <<>>, <<>>, "concept", LabelDesc)>>],
     [has_name |-> FALSE, has_new_format |-> TRUE,
      rows |-> <<MapRow("signal_001", "", <<>>, <<>>, "concept", LabelDesc),
                 MapRow("signal_001", "", <<>>, <<>>, "ticker", ticker_str(1))>>],
     [has_name |-> FALSE, has_new_format |-> TRUE,
      rows |-> <<MapRow("signal_002", "", <<>>, <<>>, "concept",
                        LabelChip \o <<",">> \o LabelDesc)>>],
     [has_name |-> TRUE, has_new_format |-> FALSE,
      rows |-> <<MapRow("signal_002", "Chips", <<>>,
                        LabelChip \o <<IdeographicComma>> \o LabelDesc, "", <<>>)>>],
     [has_name |-> TRUE, has_new_format |-> FALSE,
      rows |-> <<MapRow("signal_002", "Chips", LabelAI, LabelChip, "", <<>>)>>]}

NoDate == [given |-> FALSE, date |-> 0]
GivenDate(d) == [given |-> TRUE, date |-> d]

\* the --top values of the command lines: none, or more than one row
TopChoices == {0, MaxTop}

\* the command lines of the model
ArgsSet ==
    {a \in [date : RunDates, top : TopChoices, provider : {"snapshot"},
            no_fallback : {FALSE}, no_cache : BOOLEAN,
            snapshot_as_of : {NoDate, GivenDate(SnapshotDate)},
            theme_weight : {0, 10}] :
        a.snapshot_as_of.given => a.date # SnapshotDate}

NoLocals == [kind |-> "none"]

\* the theme_to_industry.csv a behaviour may start with: none (or one
\* without a core-theme column), or one with these core-theme cells
ThemesCsvFiles ==
    {[kind |-> "none"],
     [kind |-> "file", core_theme |-> <<"AI", "Robots", "AI", "nan">>]}

Init ==
    /\ IndIdle
    /\ sc_pc = "off"
    /\ alt_scored_df = <<>> /\ alt_hit_map = <<>> /\ alt_report = NoReport
    /\ run_pc = "idle"
    /\ args = [kind |-> "none"]
    /\ \E h1 \in SnapshotShapes(1), h2 \in SnapshotShapes(2) :
          snapshots = (SnapshotDate :> Snapshot(h1, h2))
    /\ theme_map_file \in ThemeMapFiles
    /\ signals = Catalog(<<6, 3, 3>>)
    /\ theme_map = <<>>
    /\ as_of = SnapshotDate
    /\ top_n = 0
    /\ indicator_df = <<>> /\ scored_df = <<>> /\ hit_map = <<>>
    /\ report = NoReport
    /\ cache = <<>>
    /\ emitted = <<>>
    /\ run = NoLocals
    /\ theme_to_industry_csv \in ThemesCsvFiles
    /\ candidates_file = [kind |-> "absent"]
    /\ call = [fn |-> "none"]

\* what no step of the run writes
harness_vars == <<ind_pc, alt_df, alt_indicator_df, sc_pc, alt_scored_df,
                  alt_hit_map, alt_report, theme_to_industry_csv,
                  candidates_file, call>>

\* main() up to the cache lookup (run.py 194-250)
StartRun ==
    /\ run_pc \in {"idle", "done", "raised", "killed"}
    /\ \E a \in ArgsSet :
         LET tm == load_theme_industry_map(theme_map_file)
             core_themes == extract(signals)
             key == cache_key(a, signals, theme_map_file)
             cached == IF a.no_cache THEN [df |-> None, report |-> None]
                       ELSE load_cached(cache, key)
         IN  /\ args' = a
             /\ as_of' = previous_trading_date(a.date)
             /\ top_n' = a.top
             /\ theme_map' = tm
             /\ run' = [kind |-> "locals",
                        core_themes |-> core_themes,
                        mapped_theme_map |-> mapper_map(signals, tm, core_themes,
                                                        theme_map_file),
                        cache_key |-> key,
                        cached_report |-> cached.report,
                        from_cache |-> FALSE,
                        provider_fallback |-> FALSE,
                        fallback_all_universe |-> FALSE,
                        candidates |-> {},
                        candidate_source |-> "theme",
                        fallback_used |-> FALSE,
                        universe_count |-> 0,
                        insufficient_history_60 |-> 0]
             /\ run_pc' = IF cached.report.kind # "none" /\ cached.df.kind # "none"
                          THEN "cached" ELSE "fresh"
    /\ price_df' = <<>> /\ indicator_df' = <<>> /\ scored_df' = <<>>
    /\ hit_map' = <<>> /\ report' = NoReport
    /\ UNCHANGED <<signals, snapshots, theme_map_file, cache, emitted>>
    /\ UNCHANGED harness_vars

\* the cached branch (run.py 252-271) and the output of the report
ServeCached ==
    /\ run_pc = "cached"
    /\ report' = from_cached(run.cached_report, args.top)
    /\ run' = [run EXCEPT !.from_cache = TRUE]
    /\ run_pc' = "done"
    /\ UNCHANGED <<as_of, price_df, indicator_df, signals, theme_map, top_n,
                   scored_df, hit_map, args, snapshots, theme_map_file, cache,
                   emitted>>
    /\ UNCHANGED harness_vars

\* provider, candidates, price history and history filter (run.py 273-386)
FetchPrices ==
    /\ run_pc = "fresh"
    /\ LET snapshot_date == IF args.snapshot_as_of.given
                            THEN args.snapshot_as_of.date ELSE as_of
       IN  IF snapshot_date \notin DOMAIN snapshots
           THEN /\ report' = [kind |-> "FileNotFoundError"]
                /\ run_pc' = "raised"
                /\ UNCHANGED <<price_df, run>>
           ELSE LET snap == snapshots[snapshot_date]
                    picked == build_snapshot_candidates(
                                  run.mapped_theme_map, snap,
                                  membership_terms_of(snap.membership),
                                  theme_map_file)
                    fetched == get_price_history(snap, picked.candidates, as_of)
                    counts == history_counts(fetched, as_of)
                IN  /\ price_df' = history_filter(fetched, as_of)
                    /\ run' = [run EXCEPT
                                 !.fallback_all_universe =
                                     (picked.candidate_source = "universe_fallback"),
                                 !.candidates = picked.candidates,
                                 !.candidate_source = picked.candidate_source,
                                 !.universe_count = Cardinality(picked.candidates),
                                 !.insufficient_history_60 =
                                     Cardinality({t \in DOMAIN counts :
                                                    counts[t] < min_history})]
                    /\ run_pc' = "indicators"
                    /\ UNCHANGED report
    /\ UNCHANGED <<as_of, indicator_df, signals, theme_map, top_n, scored_df,
                   hit_map, args, snapshots, theme_map_file, cache, emitted>>
    /\ UNCHANGED harness_vars

\* a version that leaves the label columns as they are
keep_labels(df) == df

\* the label columns blanked after a universe fallback (run.py 390-393)
blank_labels(df) ==
    [k \in DOMAIN df |->
        [df[k] EXCEPT !.concept = <<>>, !.industry = <<>>, !.description = <<>>]]

\* indicator computation (run.py 388-396)
Indicators ==
    /\ run_pc = "indicators"
    /\ LET computed == compute_indicators(price_df, as_of)
       IN  /\ indicator_df' = IF run.fallback_all_universe
                              THEN blank_labels(computed) ELSE computed
           /\ run_pc' = IF computed = <<>> THEN "empty" ELSE "score"
    /\ UNCHANGED <<as_of, price_df, signals, theme_map, top_n, scored_df,
                   hit_map, report, args, snapshots, theme_map_file, cache,
                   run, emitted>>
    /\ UNCHANGED harness_vars

\* no indicator row: the report without results (run.py 397-404)
EmptyReport ==
    /\ run_pc = "empty"
    /\ report' = empty_report(as_of, args.top)
    /\ run_pc' = "finish"
    /\ UNCHANGED <<as_of, price_df, indicator_df, signals, theme_map, top_n,
                   scored_df, hit_map, args, snapshots, theme_map_file, cache,
                   run, emitted>>
    /\ UNCHANGED harness_vars

\* scoring and the theme_weight = 0 ablation (run.py 406-411)
ScoreRun ==
    /\ run_pc = "score"
    /\ LET out == score_stocks(indicator_df, signals, run.mapped_theme_map)
           abl == ablate(out.scored, args.theme_weight)
       IN  /\ hit_map' = out.hit_map
           /\ IF abl.kind = "ok"
              THEN /\ scored_df' = abl.scored
                   /\ run_pc' = "select"
                   /\ UNCHANGED report
              ELSE /\ scored_df' = out.scored
                   /\ run_pc' = "raised"
                   /\ report' = abl
    /\ UNCHANGED <<as_of, price_df, indicator_df, signals, theme_map, top_n,
                   args, snapshots, theme_map_file, cache, run, emitted>>
    /\ UNCHANGED harness_vars

\* selection and the two build_report calls (run.py 412-442)
SelectReport ==
    /\ run_pc = "select"
    /\ \E ord \in sort_values_desc(scored_df, "final_score") :
       \E ford \in fallback_orders(scored_df, ord, args.top) :
         LET sel == select(scored_df, ord, ford, args.top)
         IN  IF sel.kind # "ok"
             THEN /\ report' = sel
                  /\ run_pc' = "raised"
                  /\ UNCHANGED run
             ELSE \E rord \in sort_values_desc(sel.selected, "final_score") :
                  \E cord \in sort_values_desc(scored_df, "final_score") :
                    LET rep == build_report(sel.selected, rord, hit_map, as_of,
                                            args.top, run.core_themes)
                        candidates_report ==
                            build_report(scored_df, cord, hit_map, as_of,
                                         Len(scored_df), run.core_themes)
                    IN  IF rep.kind # "report"
                        THEN /\ report' = rep
                             /\ run_pc' = "raised"
                             /\ UNCHANGED run
                        ELSE IF candidates_report.kind # "report"
                        THEN /\ report' = candidates_report
                             /\ run_pc' = "raised"
                             /\ UNCHANGED run
                        ELSE /\ report' = [data_date |-> as_of] @@ rep
                             /\ run_pc' = "finish"
                             /\ run' = [run EXCEPT
                                          !.fallback_used = sel.fallback_used]
    /\ UNCHANGED <<as_of, price_df, indicator_df, signals, theme_map, top_n,
                   scored_df, hit_map, args, snapshots, theme_map_file, cache,
                   emitted>>
    /\ UNCHANGED harness_vars

\* meta, issues, the cache write and the output (run.py 444-598)
Finish ==
    /\ run_pc = "finish"
    /\ LET rep == with_meta(report, args.top, run, Len(indicator_df))
           meta == [as_of |-> as_of, provider |-> args.provider]
       IN  /\ report' = rep
           /\ cache' = save_cached(cache, run.cache_key, indicator_df, rep, meta)
           /\ emitted' = [k \in DOMAIN emitted \cup {run.cache_key} |->
                            IF k = run.cache_key THEN rep.results ELSE emitted[k]]
    /\ run_pc' = "done"
    /\ UNCHANGED <<as_of, price_df, indicator_df, signals, theme_map, top_n,
                   scored_df, hit_map, args, snapshots, theme_map_file, run>>
    /\ UNCHANGED harness_vars

Next ==
    \/ StartRun
    \/ ServeCached
    \/ FetchPrices
    \/ Indicators
    \/ EmptyReport
    \/ ScoreRun
    \/ SelectReport
    \/ Finish

Spec == Init /\ [][Next]_vars

----------------------------------------------------------------------------
(* C2, C4, C5, C9, C10: the run *)

RunEnded == run_pc \in {"done", "raised"}

\* the snapshot directory the current run reads
SnapshotOfRun ==
    snapshots[IF args.snapshot_as_of.given THEN args.snapshot_as_of.date ELSE as_of]

\* the trading days of ticker t at or before as_of: its distinct dated bars
TradingDays(t) ==
    Cardinality({SnapshotOfRun.prices[k].date :
                   k \in {j \in DOMAIN SnapshotOfRun.prices :
                            /\ SnapshotOfRun.prices[j].ticker = t
                            /\ SnapshotOfRun.prices[j].date <= as_of}})

\* C2: a ticker with fewer than 61 trading days at or before as_of is removed
\* before indicator computation: it has no row in the price table handed to
\* compute_indicators, no indicator row, and no row in the report's results.
C2_ShortHistoryExcluded ==
    run_pc \in {"indicators", "empty", "score", "select", "finish", "done", "raised"} =>
        /\ \A k \in DOMAIN price_df : TradingDays(price_df[k].ticker) >= 61
        /\ \A k \in DOMAIN indicator_df : TradingDays(indicator_df[k].ticker) >= 61
        /\ report.kind = "report" /\ ~run.from_cache =>
              \A k \in DOMAIN report.results :
                  TradingDays(report.results[k].ticker) >= 61

\* C4: a run invoked with theme_weight = 0 that finds its snapshot emits a
\* report, fresh or cached, and every result has score_theme_total = 0.
C4_ThemeWeightZero ==
    (RunEnded /\ args.theme_weight = 0 /\ report.kind # "FileNotFoundError") =>
        /\ report.kind = "report"
        /\ \A k \in DOMAIN report.results :
              FracEq(report.results[k].score_breakdown.score_theme_total, Zero)

\* the issue list the claim describes, from the cached report of the key
C5_CachedReport == cache[run.cache_key].report.content

C5_ExpectedIssueList ==
    (IF Len(C5_CachedReport.results) < C5_CachedReport.top_n
     THEN <<"insufficient_results">> ELSE <<>>)
    \o (IF get(C5_CachedReport.meta, "provider_fallback", FALSE)
        THEN <<"provider_fallback">> ELSE <<>>)
    \o (IF get(C5_CachedReport.meta, "fallback_used", FALSE)
        THEN <<"fallback_used:theme_insufficient">> ELSE <<>>)

\* C5: a run served from the cache emits the results the run that stored the
\* key emitted, and its issues counter is the length of meta.issue_list
\* recomputed from the cached results, the cached top_n and the cached flags.
C5_CachedRunReproduces ==
    (run_pc = "done" /\ run.from_cache) =>
        /\ run.cache_key \in DOMAIN emitted
        /\ report.results = emitted[run.cache_key]
        /\ report.meta.issue_list = C5_ExpectedIssueList
        /\ report.issues = Len(C5_ExpectedIssueList)

\* a run was served a stored report that is short of its top_n
C5_Witness ==
    /\ run_pc = "done"
    /\ run.from_cache
    /\ report.issues = 1
    /\ report.meta.issue_list = <<"insufficient_results">>
    /\ report.debug.warnings # <<>>

\* the row order of a stable descending sort by final_score
StableDesc(df) ==
    CHOOSE ord \in sort_values_desc(df, "final_score") :
        \A a, b \in DOMAIN ord :
            (a < b /\ FracEq(df[ord[a]].final_score, df[ord[b]].final_score))
                => ord[a] < ord[b]

\* C9: a fresh run that scored rows emits a report whose results are the
\* top_n rows (all rows when fewer were scored) of the scored set by
\* final_score descending, equal scores in input order.
C9_TopNByFinalScore ==
    (RunEnded /\ ~run.from_cache /\ indicator_df # <<>>) =>
        /\ report.kind = "report"
        /\ LET ord == StableDesc(scored_df)
               n == IF args.top < Len(scored_df) THEN args.top ELSE Len(scored_df)
           IN  /\ Len(report.results) = n
               /\ \A k \in 1..n :
                     /\ report.results[k].ticker = scored_df[ord[k]].ticker
                     /\ report.results[k].final_score = scored_df[ord[k]].final_score

\* the rows the theme ranking picks: the scored rows with a theme hit
ThemePicks == {k \in DOMAIN scored_df : FracLess(Zero, scored_df[k].theme_score)}

\* C10: when fewer than top_n rows are theme picks while at least top_n rows
\* were scored, the run fills the report to exactly top_n results and sets
\* meta.fallback_used with the issue fallback_used:theme_insufficient.
C10_FallbackFill ==
    (RunEnded /\ ~run.from_cache /\ Cardinality(ThemePicks) < args.top
        /\ Len(scored_df) >= args.top) =>
        /\ report.kind = "report"
        /\ Len(report.results) = args.top
        /\ get(report.meta, "fallback_used", FALSE)
        /\ "fallback_used:theme_insufficient" \in Range(report.meta.issue_list)

----------------------------------------------------------------------------
(* C11: the run after indicator computation *)

\* the fresh run is past its scoring, selection and report building
C11_PastReportBuilding ==
    /\ run_pc \in {"finish", "done", "raised"}
    /\ ~run.from_cache
    /\ indicator_df # <<>>

\* C11: once indicator computation has given a non-empty table, scoring, the
\* theme_weight = 0 ablation, selection and report building raise nothing:
\* the run holds a report, and a selection short of top_n is recorded in
\* meta.issue_list when the run is done.
C11_RunProducesReport ==
    C11_PastReportBuilding =>
        /\ report.kind = "report"
        /\ (run_pc = "done" /\ Len(report.results) < args.top)
              => "insufficient_results" \in Range(report.meta.issue_list)

----------------------------------------------------------------------------
(* C12: candidate selection *)

\* the fresh run has selected its candidates
C12_Selected ==
    /\ run_pc \in {"indicators", "empty", "score", "select", "finish", "done", "raised"}
    /\ ~run.from_cache
    /\ report.kind # "FileNotFoundError"

\* the flattened mapped terms of the restricted signals
C12_MappedTerms ==
    UNION {terms_from_theme_map(run.mapped_theme_map)[sid] :
             sid \in DOMAIN run.mapped_theme_map}

\* the snapshot tickers whose concept-or-industry terms meet the mapped terms
C12_ThemeTickers ==
    {t \in DOMAIN membership_terms_of(SnapshotOfRun.membership) :
        membership_terms_of(SnapshotOfRun.membership)[t] \cap C12_MappedTerms # {}}

\* C12: the candidates of a snapshot run are the tickers whose concept or
\* industry terms meet the flattened mapped terms of the restricted signals,
\* with candidate_source theme; when there is no such ticker they are the
\* whole price universe, with candidate_source universe_fallback.
C12_CandidateSelection ==
    C12_Selected =>
        IF C12_ThemeTickers = {}
        THEN /\ run.candidates = {SnapshotOfRun.prices[k].ticker :
                                     k \in DOMAIN SnapshotOfRun.prices}
             /\ run.candidate_source = "universe_fallback"
        ELSE /\ run.candidates = C12_ThemeTickers
             /\ run.candidate_source = "theme"

----------------------------------------------------------------------------
(* C13: the universe fallback *)

\* the scorer of a fresh universe-fallback run has been handed its rows
C13_FallbackScored ==
    /\ run_pc \in {"select", "finish", "done", "raised"}
    /\ ~run.from_cache
    /\ run.candidate_source = "universe_fallback"
    /\ indicator_df # <<>>

\* C13: in a universe-fallback run every indicator row handed to the scorer
\* has empty concept, industry and description, and no hit of the run is
\* concept-, industry- or keyword-based: every hit detail comes from a
\* ticker entry of the map.
C13_FallbackHasNoLabelHits ==
    C13_FallbackScored =>
        /\ \A i \in DOMAIN indicator_df :
              /\ indicator_df[i].concept = <<>>
              /\ indicator_df[i].industry = <<>>
              /\ indicator_df[i].description = <<>>
        /\ \A t \in DOMAIN hit_map : \A k \in DOMAIN hit_map[t] :
              /\ hit_map[t][k].match_paths \subseteq {"ticker"}
              /\ hit_map[t][k].matched_source \subseteq {"map"}

\* the scorer of a universe-fallback run was handed the rows of two tickers
\* that belong to concepts, and hit one of them through a ticker entry
C13_Witness ==
    /\ C13_FallbackScored
    /\ Cardinality({indicator_df[i].ticker : i \in DOMAIN indicator_df}) = 2
    /\ DOMAIN hit_map = {1}

----------------------------------------------------------------------------
(* C14: the hit details *)

\* a keyword of signal `sig` is found in the description label of ticker t
\* and in no label before it
C14_DescriptionOnly(sig, t) ==
    LET labels == label_map(indicator_df)[t]
    IN  \E k \in DOMAIN sig.keywords : \E j \in DOMAIN labels :
            /\ labels[j].col = "description"
            /\ contains(lower(labels[j].label), lower(sig.keywords[k]))
            /\ \A i \in 1..(j - 1) :
                  ~contains(lower(labels[i].label), lower(sig.keywords[k]))

\* C14: every hit detail score_stocks produces has match_paths within
\* {ticker, concept, keyword} and matched_source within {map, signals}, and
\* a keyword found in the description label is recorded with the match
\* path concept.
C14_HitDetailFields ==
    sc_pc = "scored" =>
        \A t \in DOMAIN hit_map : \A k \in DOMAIN hit_map[t] :
            /\ hit_map[t][k].match_paths \subseteq {"ticker", "concept", "keyword"}
            /\ hit_map[t][k].matched_source \subseteq {"map", "signals"}
            /\ \A n \in DOMAIN signals :
                  (signals[n].id = hit_map[t][k].signal_id
                     /\ C14_DescriptionOnly(signals[n], t))
                    => "concept" \in hit_map[t][k].match_paths

----------------------------------------------------------------------------
(* C15: why_in_top5 *)

\* the list the claim describes: the four contributions in the order theme,
\* momentum_20, momentum_60, volume, sorted by value descending with equal
\* values left in that order, and the first three texts
C15_Expected(row) ==
    LET by_value == SortSeq(contributions(row), LAMBDA a, b :
                        FracLess(b.value, a.value))
    IN  [k \in 1..3 |-> by_value[k].text]

\* C15: for every row the report builder is handed, the why_in_top5 it
\* computes lists the 3 largest of the four contributions in descending
\* order, equal contributions in the order theme, momentum_20, momentum_60,
\* volume.
C15_WhyInTop5 ==
    sc_pc = "scored" =>
        \A i \in DOMAIN scored_df :
            why_in_top5(scored_df[i]) = C15_Expected(scored_df[i])

----------------------------------------------------------------------------
(* C16: the delimiters of the theme map *)

\* the terms map-based matching compares the labels of a row with
C16_MatchingTerms(sid) ==
    UNION {Range(theme_map[sid][k].values) : k \in DOMAIN theme_map[sid]}

\* C16: the theme map is loaded with its cells split on the whole delimiter
\* set: for every signal of the loaded map, the terms that map-based
\* matching uses are the terms that the term dictionary and candidate
\* selection derive from the same cells.
C16_SameTermsEverywhere ==
    run_pc # "idle" =>
        \A sid \in DOMAIN theme_map :
            C16_MatchingTerms(sid) = terms_from_theme_map(theme_map)[sid]

----------------------------------------------------------------------------
(* C17: the rows of compute_indicators *)

\* the rows compute_indicators emitted for ticker t
C17_RowsOf(t) == {i \in DOMAIN indicator_df : indicator_df[i].ticker = t}

\* C17: compute_indicators emits exactly one row, dated as_of, for every
\* ticker of the price history it is given, and no other row.
C17_OneRowPerTicker ==
    ind_pc = "computed" =>
        /\ \A k \in DOMAIN price_df :
              Cardinality(C17_RowsOf(price_df[k].ticker)) = 1
        /\ \A i \in DOMAIN indicator_df :
              /\ indicator_df[i].date = as_of
              /\ \E k \in DOMAIN price_df : price_df[k].ticker = indicator_df[i].ticker

----------------------------------------------------------------------------
(* C18: undefined indicators *)

\* the bars of ticker t at or before as_of in the price history
C18_Bars(t) ==
    Cardinality({price_df[k].date :
                   k \in {j \in DOMAIN price_df :
                            price_df[j].ticker = t /\ price_df[j].date <= as_of}})

\* what the claim says of one emitted row
C18_RowAsClaimed(r) ==
    /\ ~r.momentum_20.nan /\ ~r.momentum_60.nan
    /\ ~r.volatility_20.nan /\ ~r.avg_volume_20.nan
    /\ C18_Bars(r.ticker) < 60 => r.momentum_60 = Zero
    /\ C18_Bars(r.ticker) < 21 => r.momentum_20 = Zero /\ r.volatility_20 = ZeroStd
    /\ C18_Bars(r.ticker) < 20 => r.avg_volume_20 = Zero
    /\ r.indicator_missing = (C18_Bars(r.ticker) < 60)

\* C18: in every row compute_indicators emits none of the four indicators
\* is NaN; an indicator undefined for lack of history (momentum_60 needs 60
\* bars, momentum_20 and volatility_20 need 21, avg_volume_20 needs 20) is
\* 0, and indicator_missing is true exactly when one of them was undefined.
C18_UndefinedIsZero ==
    ind_pc = "computed" =>
        \A i \in DOMAIN indicator_df : C18_RowAsClaimed(indicator_df[i])

\* the price history holds one row per ticker and date
C18_OneRowPerBar ==
    \A j, k \in DOMAIN price_df :
        (price_df[j].ticker = price_df[k].ticker /\ price_df[j].date = price_df[k].date)
            => j = k

\* the same, for a history with one row per ticker and date
C18_UndefinedIsZeroOneRowPerBar ==
    (ind_pc = "computed" /\ C18_OneRowPerBar) =>
        \A i \in DOMAIN indicator_df : C18_RowAsClaimed(indicator_df[i])

\* none of the four indicators of an emitted row is NaN
C18_NeverNaN ==
    ind_pc = "computed" =>
        \A i \in DOMAIN indicator_df :
            /\ ~indicator_df[i].momentum_20.nan /\ ~indicator_df[i].momentum_60.nan
            /\ ~indicator_df[i].volatility_20.nan /\ ~indicator_df[i].avg_volume_20.nan

----------------------------------------------------------------------------
(* C19: concept_hits *)

\* the membership concepts of ticker t in the snapshot of the run
C19_MembershipConcepts(t) ==
    {SnapshotOfRun.membership[k].concept :
        k \in {j \in DOMAIN SnapshotOfRun.membership :
                 SnapshotOfRun.membership[j].ticker = t}}

\* C19: for every scored row with a theme score above 0 (the rows the
\* report builder is handed), the concept_hits it computes is not empty and
\* the concept of every entry is a membership concept of the ticker.
C19_ConceptHitsOfThemeRows ==
    \A k \in DOMAIN scored_df :
        FracLess(Zero, scored_df[k].theme_score) =>
            /\ concept_hits(scored_df[k]) # <<>>
            /\ \A n \in DOMAIN concept_hits(scored_df[k]) :
                  concept_hits(scored_df[k])[n].concept
                      \in C19_MembershipConcepts(scored_df[k].ticker)

----------------------------------------------------------------------------
(* C20: themes_used *)

\* the list the claim describes: the base themes in first-seen order, cut to
\* 5, and padded to 3 with the placeholder labels not yet in it
C20_Expected(base_themes) ==
    LET seen == unique(SelectSeq(base_themes, LAMBDA th : th # ""))
        cut == IF Len(seen) > 5 THEN SubSeq(seen, 1, 5) ELSE seen
        free == SelectSeq([idx \in 1..3 |-> placeholder(idx)],
                          LAMBDA ph : ph \notin Range(cut))
    IN  IF Len(cut) >= 3 THEN cut ELSE cut \o SubSeq(free, 1, 3 - Len(cut))

\* themes_used of the rows of the run, which passes its core themes
C20_ThemesUsed == themes_used_list(run.core_themes, <<>>)

\* C20: for every row the run hands to the report builder, themes_used has
\* no duplicates and 3 to 5 entries: the base core themes in first-seen
\* order, cut to 5, padded with placeholder labels when fewer than 3.
C20_ThemesUsedOfRows ==
    (scored_df # <<>> /\ run.core_themes # <<>>) =>
        /\ \A a, b \in DOMAIN C20_ThemesUsed :
              C20_ThemesUsed[a] = C20_ThemesUsed[b] => a = b
        /\ Len(C20_ThemesUsed) \in 3..5
        /\ C20_ThemesUsed = C20_Expected(run.core_themes)

\* the part on the number of entries and the duplicates
C20_ThreeToFiveDistinct ==
    (scored_df # <<>> /\ run.core_themes # <<>>) =>
        /\ \A a, b \in DOMAIN C20_ThemesUsed :
              C20_ThemesUsed[a] = C20_ThemesUsed[b] => a = b
        /\ Len(C20_ThemesUsed) \in 3..5

----------------------------------------------------------------------------
(* C21: the issues counter and the warnings *)

\* the fatal-class conditions of an emitted report, as the claim lists them
C21_FatalConditions ==
    (IF Len(report.results) < report.top_n THEN {"insufficient_results"} ELSE {})
    \cup (IF get(report.meta, "provider_fallback", FALSE)
          THEN {"provider_fallback"} ELSE {})
    \cup (IF get(report.meta, "fallback_used", FALSE)
          THEN {"fallback_used:theme_insufficient"} ELSE {})

C21_Informational ==
    {"no_candidates_after_filters", "fallback_all_universe_no_theme_hits"}

\* C21: in every emitted report, fresh or cached, issues is the length of
\* meta.issue_list, the list holds exactly the fatal-class conditions that
\* apply (each once), and the informational fallbacks are in debug.warnings
\* only: none of them is in the issue list or counted in issues.
C21_IssuesCountFatalOnly ==
    (run_pc = "done" /\ report.kind = "report") =>
        /\ report.issues = Len(report.meta.issue_list)
        /\ Range(report.meta.issue_list) = C21_FatalConditions
        /\ report.issues = Cardinality(C21_FatalConditions)
        /\ Range(report.meta.issue_list) \cap C21_Informational = {}
        /\ Range(report.debug.warnings) \subseteq C21_Informational
        /\ ~run.from_cache =>
              /\ ("no_candidates_after_filters" \in Range(report.debug.warnings))
                    <=> (indicator_df = <<>>)
              /\ ("fallback_all_universe_no_theme_hits" \in Range(report.debug.warnings))
                    <=> run.fallback_all_universe

\* a fresh run emitted a report with both informational warnings and no issue
C21_Witness ==
    /\ run_pc = "done"
    /\ report.kind = "report"
    /\ ~run.from_cache
    /\ Len(report.debug.warnings) = 2
    /\ report.issues = 0
    /\ report.meta.issue_list = <<>>

----------------------------------------------------------------------------
(* C22: the run whose scored universe is empty *)

\* the fresh run found its snapshot directory and computed no indicator row
C22_EmptyScoredUniverse ==
    /\ run_pc \in {"empty", "finish", "done", "raised"}
    /\ ~run.from_cache
    /\ (IF args.snapshot_as_of.given THEN args.snapshot_as_of.date ELSE as_of)
           \in DOMAIN snapshots
    /\ indicator_df = <<>>

\* C22: a fresh run whose indicator table is empty (every ticker removed by
\* the history filter, or no bar dated as_of) does not raise; its report has
\* count 0 and results = [], and the emitted report carries the warning
\* no_candidates_after_filters.
C22_EmptyUniverseReport ==
    C22_EmptyScoredUniverse =>
        /\ run_pc # "raised"
        /\ run_pc \in {"finish", "done"} =>
              /\ report.kind = "report"
              /\ report.count = 0
              /\ report.results = <<>>
        /\ run_pc = "done" =>
              "no_candidates_after_filters" \in Range(report.debug.warnings)

\* a run whose tickers all failed the history filter emitted its report
C22_Witness ==
    /\ C22_EmptyScoredUniverse
    /\ run_pc = "done"
    /\ price_df = <<>>
    /\ run.insufficient_history_60 > 0
    /\ report.count = 0
    /\ report.debug.warnings[1] = "no_candidates_after_filters"

\* a run whose tickers have no bar dated as_of emitted its report
C22_WitnessNoBarAtAsOf ==
    /\ C22_EmptyScoredUniverse
    /\ run_pc = "done"
    /\ price_df # <<>>
    /\ report.count = 0

----------------------------------------------------------------------------
(* The candidates file: src/candidates.py, src/run.py 41-99                *)
(* A text is a sequence of [c |-> character]; the record [open |-> fields] *)
(* stands for the opening text of a serialised entry, the brace and the    *)
(* fields that hold no line boundary (item_id, ticker, mode, final_score,  *)
(* snapshot_id).                                                           *)

Newline == "NL"
\* U+2028, which json.dumps(ensure_ascii=False) writes as it is
LineSeparator == "LS"

\* run._mode_label
mode_label(theme_weight) == IF theme_weight = 0 THEN "tech_only" ELSE "enhanced"

\* _candidate_entry(row, mode, snapshot_id)
candidate_entry(row, mode, snapshot_id) ==
    [item_id |-> row.ticker, ticker |-> row.ticker, mode |-> mode,
     final_score |-> row.final_score, snapshot_id |-> snapshot_id,
     concept_hits |-> row.reason_struct.concept_hits]

RECURSIVE join_terms(_)
\* the characters of a list of terms, a comma between two terms
join_terms(terms) ==
    IF terms = <<>> THEN <<>>
    ELSE [k \in DOMAIN Head(terms) |-> [c |-> Head(terms)[k]]]
         \o (IF Tail(terms) = <<>> THEN <<>> ELSE <<[c |-> ","]>>)
         \o join_terms(Tail(terms))

\* json.dumps(entry, ensure_ascii=False)
json_dumps(entry) ==
    <<[open |-> [item_id |-> entry.item_id, ticker |-> entry.ticker,
                 mode |-> entry.mode, final_score |-> entry.final_score,
                 snapshot_id |-> entry.snapshot_id]]>>
    \o join_terms(entry.concept_hits)
    \o <<[c |-> "}"]>>

\* json.loads(line): the entry, or JSONDecodeError for a text that is not one
\* whole serialised entry
json_loads(line) ==
    IF /\ Len(line) >= 2
       /\ "open" \in DOMAIN line[1]
       /\ line[Len(line)] = [c |-> "}"]
       /\ \A i \in 2..(Len(line) - 1) : "c" \in DOMAIN line[i] /\ line[i].c # "}"
    THEN LET inner == [i \in 1..(Len(line) - 2) |-> line[i + 1].c]
         IN  [ok |-> TRUE,
              entry |-> [concept_hits |-> IF inner = <<>> THEN <<>>
                                          ELSE split_on(inner, ",", <<>>)]
                        @@ line[1].open]
    ELSE [ok |-> FALSE]

RECURSIVE splitlines(_, _)
\* str.splitlines(): the line boundaries include "\n" and U+2028; no empty
\* last line after a final boundary
splitlines(text, cur) ==
    IF text = <<>> THEN (IF cur = <<>> THEN <<>> ELSE <<cur>>)
    ELSE IF "c" \in DOMAIN Head(text) /\ Head(text).c \in {Newline, LineSeparator}
         THEN <<cur>> \o splitlines(Tail(text), <<>>)
         ELSE splitlines(Tail(text), Append(cur, Head(text)))

\* load_candidates(path): the lines that are entries
load_candidates(file) ==
    IF file.kind = "absent" THEN <<>>
    ELSE LET lines == splitlines(file.text, <<>>)
             read == SelectSeq(lines, LAMBDA l : l # <<>> /\ json_loads(l).ok)
         IN  [k \in DOMAIN read |-> json_loads(read[k]).entry]

\* mode_order.get(mode, 9)
mode_value(mode) ==
    CASE mode = "enhanced" -> 0
      [] mode = "tech_only" -> 1
      [] mode = "all" -> 2
      [] OTHER -> 9

\* sort_key(a) < sort_key(b): (mode_value, -final_score, item_id)
sort_key_less(a, b) ==
    \/ mode_value(a.mode) < mode_value(b.mode)
    \/ /\ mode_value(a.mode) = mode_value(b.mode)
       /\ \/ a.final_score > b.final_score
          \/ a.final_score = b.final_score /\ StrLess(a.item_id, b.item_id)

RECURSIVE insert_entry(_, _)
\* x placed after the entries of the sorted list with a smaller key
insert_entry(x, q) ==
    IF q = <<>> THEN <<x>>
    ELSE IF sort_key_less(Head(q), x) THEN <<Head(q)>> \o insert_entry(x, Tail(q))
    ELSE <<x>> \o q

RECURSIVE sorted_entries(_)
\* sorted(merged, key=sort_key): stable
sorted_entries(q) ==
    IF q = <<>> THEN <<>> ELSE insert_entry(Head(q), sorted_entries(Tail(q)))

RECURSIVE join_lines(_)
\* "\n".join(json.dumps(entry) ...) + "\n"
join_lines(entries) ==
    IF entries = <<>> THEN <<>>
    ELSE json_dumps(Head(entries)) \o <<[c |-> Newline]>> \o join_lines(Tail(entries))

\* write_candidates_entries
write_candidates_entries(entries) == [kind |-> "file", text |-> join_lines(entries)]

\* write_candidates(report, mode, output_path, snapshot_id): the new file
write_candidates(rep, mode, file, snapshot_id) ==
    LET new_entries == [k \in DOMAIN rep.results |->
                          candidate_entry(rep.results[k], mode, snapshot_id)]
        existing_entries == load_candidates(file)
        merged == SelectSeq(existing_entries, LAMBDA e : e.mode # mode) \o new_entries
    IN  write_candidates_entries(sorted_entries(merged))

----------------------------------------------------------------------------
(* Single functions: the concept mapper, the theme extractor, the date     *)
(* alignment and the candidates writer, each called on inputs of its own   *)

\* signal lists: the catalog; six signals with six core themes, the last of
\* them outside the five extracted themes; signals without a theme or
\* without a core theme
SignalLists ==
    {Catalog(<<6, 3, 3>>),
     <<Signal("signal_001", "AI", "T1", <<KwAI>>, 6),
       Signal("signal_002", "Chips", "T2", <<KwChip>>, 6),
       Signal("signal_003", "Risk", "T1", <<KwI>>, 3),
       Signal("signal_004", "Risk", "T3", <<KwI>>, 3),
       Signal("signal_005", "Risk", "T4", <<KwI>>, 3),
       Signal("signal_006", "Risk", "T5", <<KwI>>, 3),
       Signal("signal_007", "AI", "T6", <<KwAI>>, 3)>>,
     <<Signal("signal_001", "", "", <<KwAI>>, 6),
       Signal("signal_002", "Chips", "AI", <<KwChip>>, 6),
       Signal("signal_003", "AI", "", <<KwAI>>, 6)>>,
     <<>>}

\* theme-map files with a theme-name column whose names are signal themes
NamedThemeMapFiles ==
    {[has_name |-> TRUE, has_new_format |-> FALSE,
      rows |-> <<MapRow("signal_777", "AI", <<>>,
                        LabelChip \o <<IdeographicComma>> \o LabelDesc, "", <<>>)>>],
     [has_name |-> TRUE, has_new_format |-> TRUE,
      rows |-> <<MapRow("signal_001", "AI", <<>>, LabelChip, "concept", LabelAI),
                 MapRow("signal_777", "Chips", <<>>, LabelDesc, "concept", <<>>)>>],
     [has_name |-> TRUE, has_new_format |-> TRUE,
      rows |-> <<MapRow("signal_777", "AI", LabelAI \o <<",">> \o LabelChip, <<>>,
                        "concept", <<>>),
                 MapRow("signal_778", "AI", <<>>, LabelDesc, "concept", <<>>),
                 MapRow("signal_002", "Chips", <<>>, LabelDesc, "ticker",
                        ticker_str(1))>>],
     [has_name |-> TRUE, has_new_format |-> TRUE,
      rows |-> <<MapRow("signal_777", "AI", <<>>, <<>>, "concept", <<>>)>>]}

Caps == 0..6
MaxDate == 27
MaxCalls == 3

NotDone == [done |-> FALSE]

\* the calls a behaviour may start with
MapCalls ==
    {[fn |-> "map", signals |-> sigs, file |-> f] @@ NotDone :
        sigs \in SignalLists, f \in ThemeMapFiles \cup NamedThemeMapFiles}

ExtractCalls ==
    {[fn |-> "extract", signals |-> sigs, cap |-> c] @@ NotDone :
        sigs \in SignalLists, c \in Caps}

DateCalls ==
    {[fn |-> "previous_trading_date", date |-> d] @@ NotDone : d \in 0..MaxDate}

\* a sequence of write_candidates calls on a file that does not exist yet;
\* `written` keeps, per mode, the entries of the latest call with the mode
CandidateCalls ==
    {[fn |-> "write_candidates", calls |-> 0, written |-> <<>>] @@ NotDone}

CandidateRow(t, score, hits) ==
    [ticker |-> ticker_str(t), final_score |-> score,
     reason_struct |-> [concept_hits |-> hits]]

\* the reports handed to write_candidates: two rows with the same score, in
\* descending ticker order; one row whose concept holds U+2028; no row
CandidateReports ==
    {[results |-> <<CandidateRow(2, 5, <<LabelAI>>),
                    CandidateRow(1, 5, <<LabelChip, LabelDesc>>)>>],
     [results |-> <<CandidateRow(3, 7, <<<<"a", LineSeparator, "i">>>>)>>],
     [results |-> <<>>]}

Modes == {"enhanced", "tech_only", "all", "custom"}

FnInit ==
    /\ IndIdle
    /\ ScIdle
    /\ as_of = 0
    /\ indicator_df = <<>>
    /\ run_pc = "off" /\ args = [kind |-> "none"] /\ snapshots = <<>>
    /\ theme_map_file = [kind |-> "none"]
    /\ cache = <<>> /\ run = [kind |-> "none"] /\ emitted = <<>>
    /\ theme_to_industry_csv = [kind |-> "none"]
    /\ candidates_file = [kind |-> "absent"]
    /\ call \in MapCalls \cup ExtractCalls \cup DateCalls \cup CandidateCalls

fn_unchanged ==
    <<ind_pc, as_of, price_df, alt_df, indicator_df, alt_indicator_df,
      sc_pc, signals, theme_map, top_n, scored_df, hit_map, report,
      alt_scored_df, alt_hit_map, alt_report,
      run_pc, args, snapshots, theme_map_file, cache, run, emitted,
      theme_to_industry_csv>>

\* run.py 220-231: the theme map is loaded, the core themes extracted and the
\* mapper called with them and the path of the file
MapConcepts ==
    /\ call.fn = "map" /\ ~call.done
    /\ LET tm == load_theme_industry_map(call.file)
           themes == extract(call.signals)
       IN  call' = [fn |-> "map", done |-> TRUE, signals |-> call.signals,
                    file |-> call.file, theme_map |-> tm, themes |-> themes,
                    mapped_theme_map |->
                        mapper_map(call.signals, tm, themes, call.file),
                    signal_theme_key_map |->
                        mapper_key_map(call.signals, tm, themes, call.file)]
    /\ UNCHANGED candidates_file
    /\ UNCHANGED fn_unchanged

\* DefaultThemeExtractor(max_themes = cap).extract(signals)
ExtractThemes ==
    /\ call.fn = "extract" /\ ~call.done
    /\ call' = [fn |-> "extract", done |-> TRUE, signals |-> call.signals,
                cap |-> call.cap,
                themes |-> extract_max_themes(call.signals, call.cap)]
    /\ UNCHANGED candidates_file
    /\ UNCHANGED fn_unchanged

\* previous_trading_date(date), and the function applied to its own result
AlignDate ==
    /\ call.fn = "previous_trading_date" /\ ~call.done
    /\ call' = [fn |-> "previous_trading_date", done |-> TRUE, date |-> call.date,
                aligned |-> previous_trading_date(call.date),
                twice |-> previous_trading_date(previous_trading_date(call.date))]
    /\ UNCHANGED candidates_file
    /\ UNCHANGED fn_unchanged

----------------------------------------------------------------------------
(* C23: the concept mapper *)

C23_Restricted(sig) ==
    call.themes = <<>> \/ sig.core_theme \in Range(call.themes)

\* the candidate keys of a signal that resolve in the term dictionary of the
\* file, in the order of the keys
C23_MatchingKeys(sig) ==
    LET dict == terms_from_theme_map_csv(call.file)
    IN  SelectSeq(IF sig.theme # "" THEN <<sig.theme>> ELSE <<>>,
                  LAMBDA key : key \in DOMAIN dict /\ dict[key] # {})

C23_MatchingTerms(sig) ==
    UNION {terms_from_theme_map_csv(call.file)[key] :
             key \in Range(C23_MatchingKeys(sig))}

\* C23: the mapper resolves each restricted signal so: with direct entries in
\* the loaded theme map, its mapped entries are those (the fallback does not
\* replace them and records no key); otherwise, when a candidate key resolves
\* in the term dictionary, it has one concept entry whose values are the
\* union of the terms of the matching keys and the recorded key is the first
\* matching key; otherwise it has no entry.
C23_MapperResolution ==
    (call.fn = "map" /\ call.done) =>
        \A k \in DOMAIN call.signals :
            LET sig == call.signals[k]
                direct == IF sig.id \in DOMAIN call.theme_map
                          THEN call.theme_map[sig.id] ELSE <<>>
            IN  C23_Restricted(sig) =>
                  IF direct # <<>>
                  THEN /\ sig.id \in DOMAIN call.mapped_theme_map
                       /\ call.mapped_theme_map[sig.id] = direct
                       /\ sig.id \notin DOMAIN call.signal_theme_key_map
                  ELSE IF C23_MatchingKeys(sig) # <<>>
                  THEN /\ sig.id \in DOMAIN call.mapped_theme_map
                       /\ call.mapped_theme_map[sig.id] =
                              <<[type |-> "concept",
                                 values |-> sorted(C23_MatchingTerms(sig))]>>
                       /\ sig.id \in DOMAIN call.signal_theme_key_map
                       /\ call.signal_theme_key_map[sig.id] = C23_MatchingKeys(sig)[1]
                  ELSE sig.id \notin DOMAIN call.mapped_theme_map

\* one signal kept its direct entries although its theme resolves in the
\* dictionary, another was filled by the fallback
C23_Witness ==
    /\ call.fn = "map" /\ call.done
    /\ \E k \in DOMAIN call.signals :
          /\ call.signals[k].id \in DOMAIN call.theme_map
          /\ C23_MatchingKeys(call.signals[k]) # <<>>
          /\ call.mapped_theme_map[call.signals[k].id]
                 = call.theme_map[call.signals[k].id]
    /\ \E k \in DOMAIN call.signals :
          /\ call.signals[k].id \in DOMAIN call.signal_theme_key_map
          /\ call.mapped_theme_map[call.signals[k].id][1].type = "concept"

----------------------------------------------------------------------------
(* The rest of the single-function specification *)

\* one more write_candidates call on the candidates file
WriteCandidates ==
    /\ call.fn = "write_candidates" /\ call.calls < MaxCalls
    /\ \E rep \in CandidateReports, mode \in Modes :
         /\ candidates_file' = write_candidates(rep, mode, candidates_file, "s")
         /\ call' = [call EXCEPT
                       !.calls = @ + 1,
                       !.written =
                           (mode :> [k \in DOMAIN rep.results |->
                                       candidate_entry(rep.results[k], mode, "s")])
                           @@ @]
    /\ UNCHANGED fn_unchanged

FnNext ==
    \/ MapConcepts
    \/ ExtractThemes
    \/ AlignDate
    \/ WriteCandidates

SpecFn == FnInit /\ [][FnNext]_vars

----------------------------------------------------------------------------
(* C24: the theme extractor *)

\* the distinct non-empty core themes of the signals, in first-seen order
C24_DistinctThemes ==
    SelectSeq(unique([k \in DOMAIN call.signals |-> call.signals[k].core_theme]),
              LAMBDA c : c # "")

\* C24: extract(signals, cap) returns the distinct non-empty core themes of
\* the signals in first-seen order, cut to the cap: its length never exceeds
\* the cap, for every signal list and every cap.
C24_ExtractWithinCap ==
    (call.fn = "extract" /\ call.done) =>
        /\ Len(call.themes) <= call.cap
        /\ call.themes = head(C24_DistinctThemes, call.cap)

\* the same for the caps of at least one
C24_ExtractWithinPositiveCap ==
    (call.fn = "extract" /\ call.done /\ call.cap >= 1) =>
        /\ Len(call.themes) <= call.cap
        /\ call.themes = head(C24_DistinctThemes, call.cap)

----------------------------------------------------------------------------
(* C27: the date alignment *)

\* C27: previous_trading_date(d) is d for a weekday and the Friday before for
\* a Saturday or Sunday; the result is a weekday, never later than d, and the
\* function applied twice gives what it gives applied once.
C27_PreviousTradingDate ==
    (call.fn = "previous_trading_date" /\ call.done) =>
        /\ weekday(call.date) < 5 => call.aligned = call.date
        /\ weekday(call.date) = 5 => call.aligned = call.date - 1
        /\ weekday(call.date) = 6 => call.aligned = call.date - 2
        /\ weekday(call.aligned) < 5
        /\ weekday(call.date) >= 5 => weekday(call.aligned) = 4
        /\ call.aligned <= call.date
        /\ call.date - call.aligned <= 2
        /\ call.twice = call.aligned

\* a Sunday was aligned to the Friday two days before
C27_Witness ==
    /\ call.fn = "previous_trading_date" /\ call.done
    /\ weekday(call.date) = 6
    /\ call.aligned = call.date - 2

----------------------------------------------------------------------------
(* C29: the candidates file after a sequence of calls *)

RECURSIVE C29_SplitOnNewline(_, _)
\* the texts between the newlines the writer put after each entry
C29_SplitOnNewline(text, cur) ==
    IF text = <<>> THEN (IF cur = <<>> THEN <<>> ELSE <<cur>>)
    ELSE IF Head(text) = [c |-> Newline]
         THEN <<cur>> \o C29_SplitOnNewline(Tail(text), <<>>)
         ELSE C29_SplitOnNewline(Tail(text), Append(cur, Head(text)))

\* the entries the file holds, one per written line
C29_Lines == C29_SplitOnNewline(candidates_file.text, <<>>)
C29_Entries == [k \in DOMAIN C29_Lines |-> json_loads(C29_Lines[k]).entry]

C29_LatestOf(mode) ==
    IF mode \in DOMAIN call.written THEN call.written[mode] ELSE <<>>

\* C29: after any sequence of write_candidates calls on the file, the file
\* holds for each mode exactly the entries of the latest call with that mode,
\* ordered by mode (enhanced, tech_only, all, then the others), then by
\* final_score descending, then by item_id ascending.
C29_LatestPerMode ==
    (call.fn = "write_candidates" /\ call.calls > 0) =>
        /\ candidates_file.kind = "file"
        /\ \A k \in DOMAIN C29_Lines : json_loads(C29_Lines[k]).ok
        /\ \A mode \in Modes :
              SelectSeq(C29_Entries, LAMBDA e : e.mode = mode)
                  = sorted_entries(C29_LatestOf(mode))
        /\ \A i, j \in DOMAIN C29_Entries :
              i < j => ~sort_key_less(C29_Entries[j], C29_Entries[i])

\* the same as long as no written entry holds a line boundary
C29_LatestPerModeWithoutBoundary ==
    (/\ call.fn = "write_candidates" /\ call.calls > 0
     /\ \A mode \in DOMAIN call.written : \A k \in DOMAIN call.written[mode] :
           \A n \in DOMAIN call.written[mode][k].concept_hits :
               LineSeparator \notin Range(call.written[mode][k].concept_hits[n])) =>
        /\ candidates_file.kind = "file"
        /\ \A k \in DOMAIN C29_Lines : json_loads(C29_Lines[k]).ok
        /\ \A mode \in Modes :
              SelectSeq(C29_Entries, LAMBDA e : e.mode = mode)
                  = sorted_entries(C29_LatestOf(mode))
        /\ \A i, j \in DOMAIN C29_Entries :
              i < j => ~sort_key_less(C29_Entries[j], C29_Entries[i])

----------------------------------------------------------------------------
(* C25: the percentile ranks *)

C25_RankColumns ==
    <<[value |-> "momentum_20", rank |-> "momentum_20_rank"],
      [value |-> "momentum_60", rank |-> "momentum_60_rank"],
      [value |-> "avg_volume_20", rank |-> "volume_rank"]>>

\* the value of a column in row i of the indicator table, a missing one as 0
C25_Value(col, i) ==
    IF indicator_df[i][col].nan THEN Zero ELSE indicator_df[i][col]

\* the positions, in ascending order of the values of the column, of the rows
\* whose value is that of row i
C25_Positions(col, i) ==
    LET below == Cardinality({j \in DOMAIN indicator_df :
                                FracLess(C25_Value(col, j), C25_Value(col, i))})
        tied == Cardinality({j \in DOMAIN indicator_df :
                               FracEq(C25_Value(col, j), C25_Value(col, i))})
    IN  (below + 1)..(below + tied)

RECURSIVE C25_Sum(_)
C25_Sum(S) == IF S = {} THEN 0 ELSE LET x == CHOOSE y \in S : TRUE
                                    IN  x + C25_Sum(S \ {x})

\* C25: the three ranks of every scored row lie in [0, 1], and each is the
\* mean of the positions its value shares with the values tied with it (a
\* missing value as 0), over all scored rows, divided by their number; rows
\* with tied values have the same rank.
C25_PercentileRanks ==
    (sc_pc = "scored") =>
        \A c \in DOMAIN C25_RankColumns : \A i \in DOMAIN scored_df :
            LET r == scored_df[i][C25_RankColumns[c].rank]
                pos == C25_Positions(C25_RankColumns[c].value, i)
            IN  /\ ~r.nan
                /\ ~FracLess(r, Zero)
                /\ ~FracLess(Num(1, 1), r)
                /\ FracEq(r, Num(C25_Sum(pos),
                                 Cardinality(pos) * Len(scored_df)))
                /\ \A j \in DOMAIN scored_df :
                      FracEq(C25_Value(C25_RankColumns[c].value, j),
                             C25_Value(C25_RankColumns[c].value, i))
                        => FracEq(scored_df[j][C25_RankColumns[c].rank], r)

\* three scored rows, two of them tied on momentum_20 above the third: the
\* tied rows share the rank 5/6
C25_Witness ==
    /\ sc_pc = "scored"
    /\ Len(scored_df) = 3
    /\ \E i, j, k \in DOMAIN scored_df :
          /\ i # j
          /\ FracEq(scored_df[i].momentum_20, scored_df[j].momentum_20)
          /\ FracLess(scored_df[k].momentum_20, scored_df[i].momentum_20)
          /\ FracEq(scored_df[i].momentum_20_rank, Num(5, 6))
          /\ FracEq(scored_df[j].momentum_20_rank, Num(5, 6))
          /\ FracEq(scored_df[k].momentum_20_rank, Num(1, 3))

----------------------------------------------------------------------------
(* C26: the theme_weight = 0 ablation *)

\* the fresh run has scored its indicator rows
C26_Scored ==
    /\ run_pc \in {"select", "finish", "done", "raised"}
    /\ ~run.from_cache
    /\ scored_df # <<>>

\* the hit map of a run is the scorer's, whatever theme_weight is
C26_HitMapUnaffected ==
    C26_Scored =>
        hit_map = score_stocks(indicator_df, signals, run.mapped_theme_map).hit_map

\* C26: a run with theme_weight = 0 that scored rows keeps the hit map of the
\* scorer and ends with a report whose rows carry the theme_hits of that hit
\* map, as the run with a non-zero theme_weight reports them; only the
\* aggregate scores differ.
C26_AblationKeepsThemeHits ==
    (RunEnded /\ C26_Scored /\ args.theme_weight = 0) =>
        /\ hit_map = score_stocks(indicator_df, signals, run.mapped_theme_map).hit_map
        /\ report.kind = "report"
        /\ \A k \in DOMAIN report.results :
              report.results[k].theme_hits
                  = merged_hits(hits_of(hit_map, report.results[k].ticker))

\* a run with theme_weight = 0 scored rows with a non-empty hit map and raised
C26_AblationRaises ==
    /\ RunEnded /\ C26_Scored /\ args.theme_weight = 0
    /\ hit_map # <<>>
    /\ report = KeyError("technical_score")

----------------------------------------------------------------------------
(* C28: the cache under complete and interrupted runs *)

\* the process ends inside save_cached (run.py 545, cache.py 33-39), after
\* the features file or after the report file: nothing is emitted
FinishInterrupted ==
    /\ run_pc = "finish"
    /\ \E n \in {1, 2} :
         LET rep == with_meta(report, args.top, run, Len(indicator_df))
             meta == [as_of |-> as_of, provider |-> args.provider]
         IN  cache' = save_cached_interrupted(cache, run.cache_key, indicator_df,
                                              rep, meta, n)
    /\ report' = [kind |-> "killed"]
    /\ run_pc' = "killed"
    /\ UNCHANGED <<as_of, price_df, indicator_df, signals, theme_map, top_n,
                   scored_df, hit_map, args, snapshots, theme_map_file, run,
                   emitted>>
    /\ UNCHANGED harness_vars

KillNext ==
    \/ Next
    \/ FinishInterrupted

\* the starts of the runs with interruptions: snapshots whose first ticker
\* has 60 or 61 bars and whose second has none, the first theme-map file
KillInit ==
    /\ Init
    /\ \E h1 \in {[past |-> 60, concepts |-> 1], [past |-> 61, concepts |-> 1]} :
          snapshots = (SnapshotDate :> Snapshot(h1, [past |-> 0, concepts |-> 1]))
    /\ theme_map_file.rows[1].map_values = LabelAI
    /\ Len(theme_map_file.rows) = 1
    /\ theme_map_file.has_new_format

SpecKill == KillInit /\ [][KillNext]_vars

\* what a run of the current command line emits when it computes afresh: the
\* report of the empty indicator table, or the exception it raises
C28_Fresh ==
    LET snapshot_date == IF args.snapshot_as_of.given
                         THEN args.snapshot_as_of.date ELSE as_of
    IN  IF snapshot_date \notin DOMAIN snapshots
        THEN [kind |-> "FileNotFoundError"]
        ELSE LET snap == snapshots[snapshot_date]
                 picked == build_snapshot_candidates(
                               run.mapped_theme_map, snap,
                               membership_terms_of(snap.membership), theme_map_file)
                 fetched == get_price_history(snap, picked.candidates, as_of)
                 counts == history_counts(fetched, as_of)
                 computed == compute_indicators(history_filter(fetched, as_of), as_of)
             IN  IF computed # <<>> THEN KeyError("technical_score")
                 ELSE with_meta(empty_report(as_of, args.top), args.top,
                        [fallback_all_universe |->
                             (picked.candidate_source = "universe_fallback"),
                         fallback_used |-> FALSE,
                         provider_fallback |-> FALSE,
                         universe_count |-> Cardinality(picked.candidates),
                         insufficient_history_60 |->
                             Cardinality({t \in DOMAIN counts :
                                            counts[t] < min_history})], 0)

\* the cached report is served only when both files of the key exist
C28_ServedOnlyWhenBothExist ==
    (run_pc \in {"cached", "done"} /\ run.kind = "locals"
        /\ (run_pc = "cached" \/ run.from_cache)) =>
        /\ ~args.no_cache
        /\ run.cache_key \in DOMAIN cache
        /\ cache[run.cache_key].data.kind = "file"
        /\ cache[run.cache_key].report.kind = "file"

\* a complete fresh run leaves the three files of its key, with its outcome
C28_FreshRunRewritesAll ==
    (run_pc = "done" /\ ~run.from_cache) =>
        /\ cache[run.cache_key].data = [kind |-> "file", content |-> indicator_df]
        /\ cache[run.cache_key].report = [kind |-> "file", content |-> report]
        /\ cache[run.cache_key].meta.kind = "file"
        /\ report = C28_Fresh

\* C28: after any sequence of complete and interrupted runs, the report a run
\* emits from the cache is the report a fresh computation of the same command
\* line emits.
C28_CachedReportIsFresh ==
    (run_pc = "done" /\ run.from_cache) => report = C28_Fresh

\* the same for the runs whose snapshot directory exists
C28_CachedReportIsFreshWithSnapshot ==
    (/\ run_pc = "done" /\ run.from_cache
     /\ (IF args.snapshot_as_of.given THEN args.snapshot_as_of.date ELSE as_of)
            \in DOMAIN snapshots)
        => report = C28_Fresh

\* a run found the features file of an interrupted run without a report file
\* and computed afresh
C28_RecomputedAfterInterruption ==
    /\ run_pc = "fresh"
    /\ ~args.no_cache
    /\ run.cache_key \in DOMAIN cache
    /\ cache[run.cache_key].data.kind = "file"
    /\ cache[run.cache_key].report.kind = "none"

----------------------------------------------------------------------------
(* C30: the primary selection and the fallback fill *)

\* the run is at the selection of run.py 412-420, or has passed it (a run
\* with theme_weight = 0 that scored rows raises before it)
C30_AtSelection ==
    \/ run_pc = "select"
    \/ /\ run_pc \in {"finish", "done", "raised"}
       /\ ~run.from_cache
       /\ scored_df # <<>>
       /\ args.theme_weight # 0

C30_Min(a, b) == IF a < b THEN a ELSE b

\* C30: in every run the primary selection has min(N, number of scored rows)
\* rows, whatever order the sort returns, so the fallback fill is not taken;
\* no run sets fallback_used, and no emitted report has meta.fallback_used or
\* the issue fallback_used:theme_insufficient.
C30_FallbackNeverTaken ==
    /\ C30_AtSelection =>
          \A ord \in sort_values_desc(scored_df, "final_score") :
              /\ Len(primary_selection(scored_df, ord, args.top))
                     = C30_Min(args.top, Len(scored_df))
              /\ ~fallback_taken(scored_df, ord, args.top)
    /\ run.kind = "locals" => ~run.fallback_used
    /\ (run_pc = "done" /\ report.kind = "report") =>
          /\ "fallback_used" \notin DOMAIN report.meta
          /\ "fallback_used:theme_insufficient" \notin Range(report.meta.issue_list)

\* a run selected its N = 2 rows out of more scored rows, one of them without
\* a theme hit, and went on to the report builder
C30_Witness ==
    /\ run_pc = "raised"
    /\ ~run.from_cache
    /\ args.theme_weight # 0
    /\ args.top = MaxTop
    /\ Len(scored_df) > args.top
    /\ \E k \in DOMAIN scored_df : FracEq(scored_df[k].theme_score, Zero)
    /\ ~run.fallback_used

====
